---- MODULE Spec2Model ----
(***************************************************************************)
(* Inside-bar breakout analyzer (src/app7.py): the pattern detector, its   *)
(* diagnostic funnel, the zone detector, the zone matcher and the setup    *)
(* enricher, as a caller runs them in turn on one price-bar series.        *)
(*                                                                         *)
(* Prices are integers (ticks) and timestamps are whole hours, so every    *)
(* comparison the code makes on floats is made here exactly; a parameter   *)
(* such as atr_mult = 1.3 is the rational <<13, 10>>.  NaN is modelled by  *)
(* explicit "is NaN" predicates with Python's comparison rule (every       *)
(* comparison with NaN is false).                                          *)
(***************************************************************************)
EXTENDS Integers, Sequences, FiniteSets, TLC

VARIABLES
    df,        \* the price-bar series handed to the core (a sequence of bars)
    pc,        \* position in the pass over the series
    zones,     \* result of detect_zones
    setups,    \* result of detect_setups (as returned by the diagnostics wrapper)
    diag,      \* the diagnostic funnel
    args,      \* the arguments the calls were made with
    enriched,  \* result of enrich_setups
    ret,       \* what a function called on its own returned
    run        \* main's pass over the selected timeframes of one instrument

vars == <<df, pc, zones, setups, diag, args, enriched, ret, run>>

----------------------------------------------------------------------------
(* Bounds of the model *)

\* number of bars of the series
SeriesLen == 50
\* number of bars the hourly feed returns to main
FeedLen == 56
\* zone lookback values tried, in hours: 1..MaxLookback
MaxLookback == 2

(* Program constants *)

\* df['TR'].rolling(14).mean()
AtrWindow == 14
\* for i in range(14, len(df) - 6)
FirstAnchor == 14
TailBars == 6
\* if len(df) < 20: return pd.DataFrame()
MinBars == 20
\* for j in range(i+3, min(i+23, len(df)))
LookaheadEnd == 23
\* for i in range(20, len(df)) in detect_zones
ZoneWarmup == 20
\* main: a series of fewer than 50 candles is skipped
MinCandles == 50

None == "None"

\* no pass of main under way
NoRun == << >>

\* index (0-based) of the first freely chosen bar of a series: the first bar
\* that can be a zone origin; the bars outside the free window are filler
FreeStart == ZoneWarmup

----------------------------------------------------------------------------
(* Arithmetic helpers *)

Abs(x) == IF x < 0 THEN -x ELSE x
Max(a, b) == IF a >= b THEN a ELSE b
Min(a, b) == IF a <= b THEN a ELSE b

\* floor(a / b) for b > 0 and any integer a
FloorDiv(a, b) == IF a >= 0 THEN a \div b ELSE -(((-a) + b - 1) \div b)

\* round(a / b * 10^k) for b > 0 with scale = 10^k: the value of Python's
\* round(a / b, k) in units of 10^-k; an exact tie goes to the even neighbour
RoundScaled(a, b, scale) ==
    LET n == a * scale
        q == FloorDiv(n, b)
        r == n - q * b
    IN  IF 2 * r < b THEN q
        ELSE IF 2 * r > b THEN q + 1
        ELSE IF q % 2 = 0 THEN q ELSE q + 1

----------------------------------------------------------------------------
(* Price bars *)

Bar(o, h, l, c) == [Open |-> o, High |-> h, Low |-> l, Close |-> c]

BigUp   == Bar(98000, 103000, 95500, 103000)
BigDown == Bar(103000, 104500, 97000, 97000)
Inside  == Bar(99500, 102000, 98000, 100500)
Flat    == Bar(99998, 99998, 99998, 99998)
At      == Bar(101000, 102000, 100900, 102000)
Above   == Bar(101000, 102001, 100900, 102001)
Below   == Bar(99000, 99100, 93800, 97950)

Shapes == {BigUp, BigDown, Inside, Flat, At, Above, Below}

SmallFill == Bar(100000, 100006, 99996, 100002)
FlatFill  == Bar(100000, 100000, 100000, 100000)

Fillers == {SmallFill, FlatFill}

\* a small rise off the filler level
Lift == Bar(100000, 100010, 99999, 100008)

\* a series of n hourly bars: filler everywhere except the free window
Series(n, fill, free) ==
    [k \in 1..n |->
        LET i == k - 1
            b == IF i >= FreeStart /\ i < FreeStart + Len(free)
                 THEN free[i - FreeStart + 1] ELSE fill
        IN  [datetime |-> i, Open |-> b.Open, High |-> b.High,
             Low |-> b.Low, Close |-> b.Close]]

\* df.iloc[i], i counted from 0 as in the code
Row(d, i) == d[i + 1]

----------------------------------------------------------------------------
(* Derived columns *)

\* df['Body'] = abs(df['Close'] - df['Open'])
Body(d, i) == Abs(Row(d, i).Close - Row(d, i).Open)

\* df['Range'] = df['High'] - df['Low']
Range(d, i) == Row(d, i).High - Row(d, i).Low

\* df['BodyRatio'] = Body / Range.replace(0, nan): NaN on a zero-range bar
BodyRatioIsNaN(d, i) == Range(d, i) = 0

\* df['IsBullish'] = df['Close'] > df['Open']
IsBullish(d, i) == Row(d, i).Close > Row(d, i).Open

\* df['TR']: NaN on the first bar (Close.shift(1) is NaN there)
TRIsNaN(d, i) == i = 0

TR(d, i) ==
    Max(Row(d, i).High - Row(d, i).Low,
        Max(Abs(Row(d, i).High - Row(d, i - 1).Close),
            Abs(Row(d, i).Low - Row(d, i - 1).Close)))

\* df['ATR'] = df['TR'].rolling(14).mean(): NaN until 14 defined TR values
\* fill the window, i.e. for the bars 0..13
ATRIsNaN(d, i) == i - (AtrWindow - 1) < 1

RECURSIVE SumTR(_, _, _)
SumTR(d, lo, hi) == IF lo > hi THEN 0 ELSE TR(d, hi) + SumTR(d, lo, hi - 1)

\* AtrWindow * rolling(14).mean() at bar i: the sum of the window
RollingSum(d, i) == SumTR(d, i - (AtrWindow - 1), i)

RECURSIVE AddColumns(_, _)
\* the first n rows of df.copy() with the ATR column filled in; the column holds
\* AtrWindow * ATR (ATR itself is this over AtrWindow), 0 standing in where ATR
\* is NaN, which ATRIsNaN tells apart
AddColumns(d, n) ==
    IF n = 0 THEN << >>
    ELSE LET r == Row(d, n - 1)
             before == AddColumns(d, n - 1)
             \* the window moves on by one bar: one TR enters, one leaves
             atr == IF ATRIsNaN(d, n - 1) THEN 0
                    ELSE IF ATRIsNaN(d, n - 2) THEN RollingSum(d, n - 1)
                    ELSE before[n - 1].ATR + TR(d, n - 1) - TR(d, n - 1 - AtrWindow)
         IN  Append(before,
                    [datetime |-> r.datetime, Open |-> r.Open, High |-> r.High,
                     Low |-> r.Low, Close |-> r.Close, ATR |-> atr])

\* df = df.copy() followed by the column assignments
WithColumns(d) == AddColumns(d, Len(d))

\* AtrWindow * r['ATR'] of a frame that carries the column
ATRSum(d, i) == Row(d, i).ATR

----------------------------------------------------------------------------
(* detect_setups: gates *)

\* a rational parameter num/den, den > 0
Rat(n, m) == [num |-> n, den |-> m]

\* mutant of AtrUnusable: a zero ATR is let through
AtrUnusable_NaNOnly(d, i) == ATRIsNaN(d, i)

\* if pd.isna(c1['ATR']) or c1['ATR']==0: continue
AtrUnusable(d, i) == ATRIsNaN(d, i) \/ ATRSum(d, i) = 0

\* c1['BodyRatio'] < body_ratio_thresh  (false when BodyRatio is NaN)
BodyRatioBelow(d, i, thresh) ==
    /\ ~BodyRatioIsNaN(d, i)
    /\ Body(d, i) * thresh.den < thresh.num * Range(d, i)

\* c1['Body'] < c1['ATR'] * atr_mult
BodyBelowAtr(d, i, mult) ==
    Body(d, i) * AtrWindow * mult.den < ATRSum(d, i) * mult.num

\* mutant of IsInsideBar: the low side of the containment test is dropped
IsInsideBar_HighOnly(c1, c2) == c2.High <= c1.High

\* not (c2['High'] <= c1['High'] and c2['Low'] >= c1['Low'])
IsInsideBar(c1, c2) == c2.High <= c1.High /\ c2.Low >= c1.Low

\* mutant of BreakoutDirection: a close at the boundary counts as a breakout
BreakoutDirection_NonStrict(c2, c3) ==
    IF c3.Close >= c2.High THEN "LONG"
    ELSE IF c3.Close <= c2.Low THEN "SHORT"
    ELSE None

\* the C3 branch: LONG, SHORT, or None when the close is not beyond C2's range
BreakoutDirection(c2, c3) ==
    IF c3.Close > c2.High THEN "LONG"
    ELSE IF c3.Close < c2.Low THEN "SHORT"
    ELSE None

\* mutant of StopLoss: the stop on the breakout side of C2
StopLoss_SameSide(c2, direction) == IF direction = "LONG" THEN c2.High ELSE c2.Low

\* sl = c2['Low'] if direction=='LONG' else c2['High']
StopLoss(c2, direction) == IF direction = "LONG" THEN c2.Low ELSE c2.High

\* mutant of Risk: the risk of a SHORT is taken as that of a LONG
Risk_LongOnly(entry, sl, direction) == entry - sl

\* risk = entry - sl if direction=='LONG' else sl - entry
Risk(entry, sl, direction) == IF direction = "LONG" THEN entry - sl ELSE sl - entry

----------------------------------------------------------------------------
(* detect_setups: per-candle outcome and outcome simulation *)

\* candle_result(None, ...): every field None
AbsentResult ==
    [present |-> FALSE, close_r |-> 0, mfe_r |-> 0, mae_r |-> 0, followed |-> FALSE]

\* candle_result: close_r, mfe_r, mae_r in thousandths (round(x, 3)), followed
CandleResult(candle, entry_px, risk_px, d) ==
    LET close_n == IF d = "LONG" THEN candle.Close - entry_px ELSE entry_px - candle.Close
        high_n  == IF d = "LONG" THEN candle.High - entry_px ELSE entry_px - candle.Low
        low_n   == IF d = "LONG" THEN entry_px - candle.Low ELSE candle.High - entry_px
    IN  [present  |-> TRUE,
         close_r  |-> RoundScaled(close_n, risk_px, 1000),
         mfe_r    |-> RoundScaled(Max(0, high_n), risk_px, 1000),
         mae_r    |-> RoundScaled(Max(0, low_n), risk_px, 1000),
         followed |-> IF d = "LONG" THEN candle.Close > entry_px
                      ELSE candle.Close < entry_px]

\* hit_1r=hit_15r=hit_2r=hit_sl=False; first_hit=None; mfe=0; mae=0
\* (mfe and mae are kept as price distances: the code's value is this over risk)
SimStart ==
    [hit_1r |-> FALSE, hit_15r |-> FALSE, hit_2r |-> FALSE, hit_sl |-> FALSE,
     first_hit |-> None, mfe |-> 0, mae |-> 0]

\* the stop-loss test of one candle of the lookahead
TouchesSL(c, sl, direction) ==
    IF direction = "LONG" THEN c.Low <= sl ELSE c.High >= sl

\* the k-halves-of-R target test of one candle: k = 2 is 1R, 3 is 1.5R, 4 is 2R
TouchesTarget(c, entry, risk, direction, k) ==
    IF direction = "LONG" THEN 2 * c.High >= 2 * entry + k * risk
    ELSE 2 * c.Low <= 2 * entry - k * risk

\* mutant of FirstHitAfter: the 1R test runs before the stop-loss test
FirstHitAfter_TargetFirst(prev, slNow, r1Now) ==
    IF prev # None THEN prev
    ELSE IF r1Now THEN "1R"
    ELSE IF slNow THEN "SL"
    ELSE None

\* first_hit after the two ordered tests of one candle: the stop-loss test runs
\* first, each test writes first_hit only while it is still None
FirstHitAfter(prev, slNow, r1Now) ==
    IF prev # None THEN prev
    ELSE IF slNow THEN "SL"
    ELSE IF r1Now THEN "1R"
    ELSE None

\* one pass of the body of "for j in range(i+3, min(i+23, len(df)))"
SimStep(acc, c, entry, sl, risk, direction) ==
    LET fav   == IF direction = "LONG" THEN c.High - entry ELSE entry - c.Low
        adv   == IF direction = "LONG" THEN entry - c.Low ELSE c.High - entry
        slNow == TouchesSL(c, sl, direction) /\ ~acc.hit_sl
        r1Now == TouchesTarget(c, entry, risk, direction, 2) /\ ~acc.hit_1r
    IN  [hit_sl    |-> acc.hit_sl \/ slNow,
         hit_1r    |-> acc.hit_1r \/ r1Now,
         hit_15r   |-> acc.hit_15r \/ TouchesTarget(c, entry, risk, direction, 3),
         hit_2r    |-> acc.hit_2r \/ TouchesTarget(c, entry, risk, direction, 4),
         first_hit |-> FirstHitAfter(acc.first_hit, slNow, r1Now),
         mfe       |-> Max(acc.mfe, fav),
         mae       |-> Max(acc.mae, adv)]

\* range(i+3, min(i+23, len(df))) as the pair of its first and last index
SimFirst(i) == i + 3
\* mutant of SimLast: the lookahead reaches one bar further
SimLast_OneMore(d, i) == Min(i + LookaheadEnd + 1, Len(d)) - 1
SimLast(d, i) == Min(i + LookaheadEnd, Len(d)) - 1

RECURSIVE Simulate(_, _, _, _, _, _, _)
Simulate(d, lo, hi, entry, sl, risk, direction) ==
    IF lo > hi THEN SimStart
    ELSE SimStep(Simulate(d, lo, hi - 1, entry, sl, risk, direction),
                 Row(d, hi), entry, sl, risk, direction)

\* win = hit_1r if first_hit=='1R' else (False if first_hit=='SL'
\*       else (c4_res['close_r'] is not None and c4_res['close_r']>0))
WinLabel(sim, c4_res) ==
    IF sim.first_hit = "1R" THEN sim.hit_1r
    ELSE IF sim.first_hit = "SL" THEN FALSE
    ELSE c4_res.present /\ c4_res.close_r > 0

----------------------------------------------------------------------------
(* detect_setups *)

\* mutant of WickDivide: the Full Body test runs before the two Heavy Wick
\* tests
WickDivide_FullBodyEarly(open_p, close_p, high, low) ==
    LET body_top == Max(open_p, close_p)
        body_bot == Min(open_p, close_p)
        total_range == high - low
        upper_wick == high - body_top
        lower_wick == body_bot - low
        body == body_top - body_bot
        label ==
            IF body * 100 < 10 * total_range THEN "Doji"
            ELSE IF upper_wick * 100 > 30 * total_range
                    /\ lower_wick * 100 > 30 * total_range
                 THEN "Wicks Both Sides"
            ELSE IF body * 100 > 75 * total_range THEN "Full Body (Marubozu)"
            ELSE IF upper_wick > lower_wick * 2
                    /\ upper_wick * 100 > 20 * total_range
                 THEN "Heavy Upper Wick"
            ELSE IF lower_wick > upper_wick * 2
                    /\ lower_wick * 100 > 20 * total_range
                 THEN "Heavy Lower Wick"
            ELSE IF upper_wick * 100 > lower_wick * 100 + 5 * total_range
                 THEN "Slight Upper Wick"
            ELSE IF lower_wick * 100 > upper_wick * 100 + 5 * total_range
                 THEN "Slight Lower Wick"
            ELSE "Balanced"
    IN  IF total_range = 0
        THEN [label |-> "ZeroDivisionError", upper_pct |-> 0, lower_pct |-> 0,
              body_pct |-> 0, is_bullish |-> close_p > open_p, divisors |-> {0}]
        ELSE [label |-> label,
              upper_pct |-> RoundScaled(upper_wick * 100, total_range, 10),
              lower_pct |-> RoundScaled(lower_wick * 100, total_range, 10),
              body_pct |-> RoundScaled(body * 100, total_range, 10),
              is_bullish |-> close_p > open_p,
              divisors |-> {total_range}]

\* classify_wick_profile past its zero-range test: the three percentages are
\* quotients by total_range and are returned rounded to one decimal (kept in
\* tenths of a percent); divisors is the set of values divided by, and a
\* division by zero is the outcome ZeroDivisionError
WickDivide(open_p, close_p, high, low) ==
    LET body_top == Max(open_p, close_p)
        body_bot == Min(open_p, close_p)
        total_range == high - low
        upper_wick == high - body_top
        lower_wick == body_bot - low
        body == body_top - body_bot
        label ==
            IF body * 100 < 10 * total_range THEN "Doji"
            ELSE IF upper_wick * 100 > 30 * total_range
                    /\ lower_wick * 100 > 30 * total_range
                 THEN "Wicks Both Sides"
            ELSE IF upper_wick > lower_wick * 2
                    /\ upper_wick * 100 > 20 * total_range
                 THEN "Heavy Upper Wick"
            ELSE IF lower_wick > upper_wick * 2
                    /\ lower_wick * 100 > 20 * total_range
                 THEN "Heavy Lower Wick"
            ELSE IF body * 100 > 75 * total_range THEN "Full Body (Marubozu)"
            ELSE IF upper_wick * 100 > lower_wick * 100 + 5 * total_range
                 THEN "Slight Upper Wick"
            ELSE IF lower_wick * 100 > upper_wick * 100 + 5 * total_range
                 THEN "Slight Lower Wick"
            ELSE "Balanced"
    IN  IF total_range = 0
        THEN [label |-> "ZeroDivisionError", upper_pct |-> 0, lower_pct |-> 0,
              body_pct |-> 0, is_bullish |-> close_p > open_p, divisors |-> {0}]
        ELSE [label |-> label,
              upper_pct |-> RoundScaled(upper_wick * 100, total_range, 10),
              lower_pct |-> RoundScaled(lower_wick * 100, total_range, 10),
              body_pct |-> RoundScaled(body * 100, total_range, 10),
              is_bullish |-> close_p > open_p,
              divisors |-> {total_range}]

\* mutant of ClassifyWickProfile: the zero-range test is dropped
ClassifyWickProfile_NoGuard(open_p, close_p, high, low) ==
    WickDivide(open_p, close_p, high, low)

\* classify_wick_profile(open_p, close_p, high, low)
ClassifyWickProfile(open_p, close_p, high, low) ==
    IF high - low = 0
    THEN [label |-> "Doji", upper_pct |-> 0, lower_pct |-> 0, body_pct |-> 0,
          is_bullish |-> close_p >= open_p, divisors |-> {}]
    ELSE WickDivide(open_p, close_p, high, low)

\* classify_wick_profile(c['Open'], c['Close'], c['High'], c['Low'])
WickProfileOf(b) == ClassifyWickProfile(b.Open, b.Close, b.High, b.Low)

\* the OHLC snapshot of a bar as stored in a Setup (c1_open .. c1_low etc.)
Snap(b) == [Open |-> b.Open, High |-> b.High, Low |-> b.Low, Close |-> b.Close]

\* mutant of LastAnchor: the scan keeps five bars after the anchor, not six
LastAnchor_FiveAhead(d) == Len(d) - (TailBars - 1) - 1

\* mutant of LastAnchor: the scan stops three bars before the end, where C4
\* is the last bar
LastAnchor_ThreeAhead(d) == Len(d) - 3 - 1

\* range(14, len(df) - 6): the last anchor index
LastAnchor(d) == Len(d) - TailBars - 1

\* the gates of one pass of the main loop, in the order the code applies them;
\* TRUE iff the pass reaches setups.append
Accepts(d, i, thresh, mult) ==
    LET c1 == Row(d, i)
        c2 == Row(d, i + 1)
        c3 == Row(d, i + 2)
        direction == BreakoutDirection(c2, c3)
    IN  /\ ~AtrUnusable(d, i)
        /\ ~BodyRatioBelow(d, i, thresh)
        /\ ~BodyBelowAtr(d, i, mult)
        /\ IsInsideBar(c1, c2)
        /\ direction # None
        /\ ~(Risk(c3.Close, StopLoss(c2, direction), direction) <= 0)

\* the record appended for an accepted anchor
SetupAt(d, i) ==
    LET c1 == Row(d, i)
        c2 == Row(d, i + 1)
        c3 == Row(d, i + 2)
        c4 == Row(d, i + 3)
        direction == BreakoutDirection(c2, c3)
        entry == c3.Close
        sl    == StopLoss(c2, direction)
        risk  == Risk(entry, sl, direction)
        c4_res == CandleResult(c4, entry, risk, direction)
        c5_res == IF i + 4 < Len(d)
                  THEN CandleResult(Row(d, i + 4), entry, risk, direction)
                  ELSE AbsentResult
        c6_res == IF i + 5 < Len(d)
                  THEN CandleResult(Row(d, i + 5), entry, risk, direction)
                  ELSE AbsentResult
        sim == Simulate(d, SimFirst(i), SimLast(d, i), entry, sl, risk, direction)
        breakout_margin == IF direction = "LONG" THEN c3.Close - c2.High
                           ELSE c2.Low - c3.Close
    IN  [datetime |-> c1.datetime,
         c1 |-> Snap(c1), c2 |-> Snap(c2), c3 |-> Snap(c3), c4 |-> Snap(c4),
         c1_body |-> Body(d, i), c1_range |-> Range(d, i),
         c1_atr_sum |-> ATRSum(d, i),
         c1_wick |-> WickProfileOf(c1), c2_wick |-> WickProfileOf(c2),
         direction |-> direction, entry_price |-> entry, stop_loss |-> sl,
         risk |-> risk,
         c3_breakout_margin |-> breakout_margin,
         c3_breakout_margin_r |-> IF risk > 0
                                  THEN RoundScaled(breakout_margin, risk, 1000) ELSE 0,
         c4_res |-> c4_res, c5_res |-> c5_res, c6_res |-> c6_res,
         follow_count |->
             Cardinality({k \in {4, 5, 6} :
                 LET r == IF k = 4 THEN c4_res ELSE IF k = 5 THEN c5_res ELSE c6_res
                 IN  r.present /\ r.followed}),
         hit_1r |-> sim.hit_1r, hit_15r |-> sim.hit_15r, hit_2r |-> sim.hit_2r,
         hit_sl |-> sim.hit_sl, first_hit |-> sim.first_hit,
         win_1r |-> WinLabel(sim, c4_res),
         max_favorable |-> sim.mfe, max_adverse |-> sim.mae,
         c1_direction_match |->
             (WickProfileOf(c1).is_bullish <=> (direction = "LONG"))]

RECURSIVE ScanSetups_NewestFirst(_, _, _, _, _)
\* mutant of ScanSetups: each Setup is put in front of the earlier ones
ScanSetups_NewestFirst(d, lo, hi, thresh, mult) ==
    IF lo > hi THEN << >>
    ELSE LET before == ScanSetups_NewestFirst(d, lo, hi - 1, thresh, mult)
         IN  IF Accepts(d, hi, thresh, mult)
             THEN <<SetupAt(d, hi)>> \o before ELSE before

RECURSIVE ScanSetups(_, _, _, _, _)
ScanSetups(d, lo, hi, thresh, mult) ==
    IF lo > hi THEN << >>
    ELSE LET before == ScanSetups(d, lo, hi - 1, thresh, mult)
         IN  IF Accepts(d, hi, thresh, mult)
             THEN Append(before, SetupAt(d, hi)) ELSE before

\* detect_setups(df, body_ratio_thresh, atr_mult)
DetectSetups(d, thresh, mult) ==
    IF Len(d) < MinBars THEN << >>
    ELSE LET dc == WithColumns(d)
         IN  ScanSetups(dc, FirstAnchor, LastAnchor(dc), thresh, mult)

----------------------------------------------------------------------------
(* detect_setups_with_diagnostics *)

DiagStart ==
    [total_scanned |-> 0, pass_body_ratio |-> 0, pass_body_atr |-> 0,
     pass_both_c1 |-> 0, pass_inside_bar |-> 0, pass_c3_breakout |-> 0,
     pass_valid_risk |-> 0]

\* br_pass = c1['BodyRatio'] >= body_ratio_thresh  (false when BodyRatio is NaN)
BrPass(d, i, thresh) ==
    /\ ~BodyRatioIsNaN(d, i)
    /\ Body(d, i) * thresh.den >= thresh.num * Range(d, i)

\* mutant of AtrPass: the body is compared with the ATR itself, atr_mult left out
AtrPass_NoMult(d, i, mult) ==
    Body(d, i) * AtrWindow >= ATRSum(d, i)

\* atr_pass = c1['Body'] >= c1['ATR'] * atr_mult
AtrPass(d, i, mult) ==
    Body(d, i) * AtrWindow * mult.den >= ATRSum(d, i) * mult.num

\* mutant of PassInside: the continue after the C1 gates is missing
PassInside_NoGate(both, c1, c2) == IsInsideBar(c1, c2)

\* "if not (br_pass and atr_pass): continue" and then the inside-bar test:
\* the anchor counts in pass_inside_bar only past both C1 gates
PassInside(both, c1, c2) == both /\ IsInsideBar(c1, c2)

Bit(b) == IF b THEN 1 ELSE 0

\* one pass of the diagnostic loop: the funnel after anchor i
DiagStep(g, d, i, thresh, mult) ==
    LET c1 == Row(d, i)
        c2 == Row(d, i + 1)
        c3 == Row(d, i + 2)
        scanned == ~AtrUnusable(d, i)
        br   == scanned /\ BrPass(d, i, thresh)
        atr  == scanned /\ AtrPass(d, i, mult)
        both == br /\ atr
        inside == PassInside(both, c1, c2)
        direction == BreakoutDirection(c2, c3)
        breakout == inside /\ direction # None
        valid == breakout /\ Risk(c3.Close, StopLoss(c2, direction), direction) > 0
    IN  [total_scanned    |-> g.total_scanned + Bit(scanned),
         pass_body_ratio  |-> g.pass_body_ratio + Bit(br),
         pass_body_atr    |-> g.pass_body_atr + Bit(atr),
         pass_both_c1     |-> g.pass_both_c1 + Bit(both),
         pass_inside_bar  |-> g.pass_inside_bar + Bit(inside),
         pass_c3_breakout |-> g.pass_c3_breakout + Bit(breakout),
         pass_valid_risk  |-> g.pass_valid_risk + Bit(valid)]

RECURSIVE ScanDiag(_, _, _, _, _)
ScanDiag(d, lo, hi, thresh, mult) ==
    IF lo > hi THEN DiagStart
    ELSE DiagStep(ScanDiag(d, lo, hi - 1, thresh, mult), d, hi, thresh, mult)

\* the funnel of detect_setups_with_diagnostics(df, body_ratio_thresh, atr_mult)
Diagnostics(d, thresh, mult) ==
    IF Len(d) < MinBars THEN DiagStart
    ELSE LET df_c == WithColumns(d)
         IN  ScanDiag(df_c, FirstAnchor, LastAnchor(df_c), thresh, mult)

----------------------------------------------------------------------------
(* detect_zones *)

\* an optional value: << >> is Python's None, <<v>> is the value v
Absent == << >>
Some(v) == <<v>>

\* mutant of ZoneBodyBelow: a body equal to the threshold is skipped as well
ZoneBodyBelow_OrEqual(d, i, zmin) ==
    Body(d, i) * AtrWindow * zmin.den <= ATRSum(d, i) * zmin.num

\* r['Body'] < r['ATR'] * zone_atr_min
ZoneBodyBelow(d, i, zmin) ==
    Body(d, i) * AtrWindow * zmin.den < ATRSum(d, i) * zmin.num

\* the continue test of one pass of detect_zones' loop
ZoneSkipped(d, i, zmin) ==
    ATRIsNaN(d, i) \/ ATRSum(d, i) = 0 \/ ZoneBodyBelow(d, i, zmin)

\* the record appended for bar i; strength = round(Body / ATR, 2) in hundredths
ZoneAt(d, i) ==
    LET r == Row(d, i)
        strength == RoundScaled(Body(d, i) * AtrWindow, ATRSum(d, i), 100)
    IN  IF IsBullish(d, i)
        THEN [datetime |-> r.datetime, zone_top |-> r.Open, zone_bottom |-> r.Low,
              zone_type |-> "demand", strength |-> strength,
              origin_body |-> Body(d, i), origin_range |-> r.High - r.Low]
        ELSE [datetime |-> r.datetime, zone_top |-> r.High, zone_bottom |-> r.Open,
              zone_type |-> "supply", strength |-> strength,
              origin_body |-> Body(d, i), origin_range |-> r.High - r.Low]

RECURSIVE ScanZones_Dedup(_, _, _, _)
\* mutant of ScanZones: a Zone with the bounds and type of the Zone before it
\* is dropped
ScanZones_Dedup(d, lo, hi, zmin) ==
    IF lo > hi THEN << >>
    ELSE LET before == ScanZones_Dedup(d, lo, hi - 1, zmin)
             z == ZoneAt(d, hi)
         IN  IF ZoneSkipped(d, hi, zmin) THEN before
             ELSE IF /\ before # << >>
                     /\ before[Len(before)].zone_top = z.zone_top
                     /\ before[Len(before)].zone_bottom = z.zone_bottom
                     /\ before[Len(before)].zone_type = z.zone_type
                  THEN before
                  ELSE Append(before, z)

RECURSIVE ScanZones(_, _, _, _)
ScanZones(d, lo, hi, zmin) ==
    IF lo > hi THEN << >>
    ELSE LET before == ScanZones(d, lo, hi - 1, zmin)
         IN  IF ZoneSkipped(d, hi, zmin) THEN before
             ELSE Append(before, ZoneAt(d, hi))

\* mutant of DetectZones: the scan starts at the first bar with an ATR, as the
\* setup scan does, and not at bar 20
DetectZones_FromFirstAnchor(d, zmin) ==
    LET dc == WithColumns(d)
    IN  ScanZones(dc, FirstAnchor, Len(dc) - 1, zmin)

\* detect_zones(df, zone_atr_min): for i in range(20, len(df))
DetectZones(d, zmin) ==
    LET dc == WithColumns(d)
    IN  ScanZones(dc, ZoneWarmup, Len(dc) - 1, zmin)

----------------------------------------------------------------------------
(* classify_zone *)

\* mutant of IsRecent: a zone stamped with the query time itself passes
IsRecent_UpToQuery(zdt, dt, lookback_hours) ==
    zdt >= dt - lookback_hours /\ zdt <= dt

\* mutant of IsRecent: the lower bound of the window is strict
IsRecent_StrictLower(zdt, dt, lookback_hours) ==
    zdt > dt - lookback_hours /\ zdt < dt

\* one row's test in
\* zones_df[(zones_df['datetime']>=cutoff)&(zones_df['datetime']<dt)]
\* with cutoff = dt - pd.Timedelta(hours=lookback_hours)
IsRecent(zdt, dt, lookback_hours) ==
    zdt >= dt - lookback_hours /\ zdt < dt

\* recent: the rows of zones_df that pass, in zones_df's order
Recent(zs, dt, lookback_hours) ==
    SelectSeq(zs, LAMBDA z : IsRecent(z.datetime, dt, lookback_hours))

\* dist_pct * price: 0 inside the zone, else the distance to the nearer edge
DistNum(z, price) ==
    IF z.zone_bottom <= price /\ price <= z.zone_top THEN 0
    ELSE Min(Abs(price - z.zone_top), Abs(price - z.zone_bottom))

\* dist_pct <= proximity_pct
WithinProximity(distNum, price, prox) == distNum * prox.den <= prox.num * price

\* the loop "for _, z in recent.iterrows()": nearest is the index in rec of the
\* first zone of least distance (0 before the first pass), min_dist its DistNum
ScanStart == [nearest |-> 0, min_dist |-> 0, near_s |-> FALSE, near_d |-> FALSE]

\* mutant of ScanStepZ: only a zone that becomes the nearest sets a flag
ScanStepZ_NearestOnly(acc, rec, k, price, prox) ==
    LET z == rec[k]
        dn == DistNum(z, price)
        closer == acc.nearest = 0 \/ dn < acc.min_dist
        near == closer /\ WithinProximity(dn, price, prox)
    IN  [nearest  |-> IF closer THEN k ELSE acc.nearest,
         min_dist |-> IF closer THEN dn ELSE acc.min_dist,
         near_s   |-> acc.near_s \/ (near /\ z.zone_type = "supply"),
         near_d   |-> acc.near_d \/ (near /\ z.zone_type # "supply")]

\* mutant of ScanStepZ: the "if dist_pct < min_dist_pct" test is missing, so the
\* zone of the last pass is taken as the nearest
ScanStepZ_LastWins(acc, rec, k, price, prox) ==
    LET z == rec[k]
        dn == DistNum(z, price)
        near == WithinProximity(dn, price, prox)
    IN  [nearest  |-> k,
         min_dist |-> dn,
         near_s   |-> acc.near_s \/ (near /\ z.zone_type = "supply"),
         near_d   |-> acc.near_d \/ (near /\ z.zone_type # "supply")]

ScanStepZ(acc, rec, k, price, prox) ==
    LET z == rec[k]
        dn == DistNum(z, price)
        closer == acc.nearest = 0 \/ dn < acc.min_dist
        near == WithinProximity(dn, price, prox)
    IN  [nearest  |-> IF closer THEN k ELSE acc.nearest,
         min_dist |-> IF closer THEN dn ELSE acc.min_dist,
         near_s   |-> acc.near_s \/ (near /\ z.zone_type = "supply"),
         near_d   |-> acc.near_d \/ (near /\ z.zone_type # "supply")]

RECURSIVE ScanRecent(_, _, _, _)
ScanRecent(rec, k, price, prox) ==
    IF k = 0 THEN ScanStart
    ELSE ScanStepZ(ScanRecent(rec, k - 1, price, prox), rec, k, price, prox)

\* zone classification from the two flags
ZoneClass(near_s, near_d) ==
    IF near_s /\ near_d THEN "contested"
    ELSE IF near_s THEN "supply"
    ELSE IF near_d THEN "demand"
    ELSE "neutral"

\* mutant of ProximityBand: the upper end of each band is excluded
ProximityBand_StrictEnds(distNum, price) ==
    IF distNum = 0 THEN "Inside Zone"
    ELSE IF distNum * 1000 < price THEN "Touching"
    ELSE IF distNum * 1000 < 3 * price THEN "Very Close"
    ELSE IF distNum * 1000 < 6 * price THEN "Near"
    ELSE IF distNum * 100 < price THEN "Moderate"
    ELSE "Far"

\* proximity band from min_dist_pct = distNum / price
ProximityBand(distNum, price) ==
    IF distNum = 0 THEN "Inside Zone"
    ELSE IF distNum * 1000 <= price THEN "Touching"
    ELSE IF distNum * 1000 <= 3 * price THEN "Very Close"
    ELSE IF distNum * 1000 <= 6 * price THEN "Near"
    ELSE IF distNum * 100 <= price THEN "Moderate"
    ELSE "Far"

NoZoneResult ==
    [zone |-> "neutral", zone_dist_pct |-> Absent, zone_strength |-> Absent,
     nearest_zone_type |-> Absent, nearest_zone_top |-> Absent,
     nearest_zone_bottom |-> Absent, zone_proximity_band |-> "No Zone",
     nearest_zone_datetime |-> Absent]

\* classify_zone(dt, price, zones_df, lookback_hours, proximity_pct).
\* zone_dist_pct = round(min_dist_pct * 100, 3) is in thousandths of a percent.
\* nearest_zone_datetime is nearest['datetime'] of the local nearest, which the
\* code's result dict leaves out.
ClassifyZone(dt, price, zs, lookback_hours, prox) ==
    LET rec == Recent(zs, dt, lookback_hours)
    IN  IF Len(zs) = 0 \/ Len(rec) = 0 THEN NoZoneResult
        ELSE LET acc == ScanRecent(rec, Len(rec), price, prox)
                 nearest == rec[acc.nearest]
             IN  [zone |-> ZoneClass(acc.near_s, acc.near_d),
                  zone_dist_pct |-> Some(RoundScaled(acc.min_dist * 100, price, 1000)),
                  zone_strength |-> Some(nearest.strength),
                  nearest_zone_type |-> Some(nearest.zone_type),
                  nearest_zone_top |-> Some(nearest.zone_top),
                  nearest_zone_bottom |-> Some(nearest.zone_bottom),
                  zone_proximity_band |-> ProximityBand(acc.min_dist, price),
                  nearest_zone_datetime |-> Some(nearest.datetime)]

----------------------------------------------------------------------------
(* enrich_setups *)

\* classify_session(dt): dt.hour of an hourly timestamp counted from midnight
Hour(dt) == dt % 24

ClassifySession(dt) ==
    LET h == Hour(dt)
    IN  IF 0 <= h /\ h < 8 THEN "Asian"
        ELSE IF 8 <= h /\ h < 13 THEN "London"
        ELSE IF 13 <= h /\ h < 21 THEN "New York"
        ELSE "Off-Hours"

\* dt.date() of an hourly timestamp: the day number
Date(dt) == dt \div 24

\* dr = df_1h.resample('D').agg({'High':'max','Low':'min'}); dr['DR'] = High-Low;
\* dv = dr['DR'].dropna(): the days that hold a bar, and each day's range
Days(d1h) == { Date(d1h[k].datetime) : k \in 1..Len(d1h) }

DailyRange(d1h, day) ==
    LET rows == { k \in 1..Len(d1h) : Date(d1h[k].datetime) = day }
        hi == CHOOSE h \in { d1h[k].High : k \in rows } :
                  \A k \in rows : d1h[k].High <= h
        lo == CHOOSE l \in { d1h[k].Low : k \in rows } :
                  \A k \in rows : d1h[k].Low >= l
    IN  hi - lo

\* the k-th smallest (k from 1) of the daily ranges
KthDailyRange(d1h, k) ==
    CHOOSE v \in { DailyRange(d1h, day) : day \in Days(d1h) } :
        /\ Cardinality({ day \in Days(d1h) : DailyRange(d1h, day) < v }) < k
        /\ Cardinality({ day \in Days(d1h) : DailyRange(d1h, day) <= v }) >= k

\* daily_vol.loc[d] > daily_vol.quantile(0.85), the quantile interpolated
\* linearly between the two order statistics around position 0.85 * (n - 1)
AboveQuantile85(d1h, day) ==
    LET n  == Cardinality(Days(d1h))
        p  == 17 * (n - 1)
        lo == p \div 20
        fr == p % 20
        vlo == KthDailyRange(d1h, lo + 1)
        vhi == IF lo + 2 <= n THEN KthDailyRange(d1h, lo + 2) ELSE vlo
    IN  20 * DailyRange(d1h, day) > 20 * vlo + fr * (vhi - vlo)

\* classify_news(dt, event_dates, daily_vol)
ClassifyNews(dt, event_dates, d1h) ==
    IF Date(dt) \in event_dates THEN "Major Event"
    ELSE IF Date(dt) \in Days(d1h) /\ AboveQuantile85(d1h, Date(dt))
         THEN "High Volatility"
    ELSE "Normal"

\* proximity_pct=zone_proximity/100
ProximityArg(zone_proximity) ==
    [num |-> zone_proximity.num, den |-> zone_proximity.den * 100]

\* mutant of PnlR: a loss counts 0
PnlR_LossZero(win) == IF win THEN 1 ELSE 0

\* s['pnl_r'] = s['win_1r'].apply(lambda w: 1.0 if w else -1.0)
PnlR(win) == IF win THEN 1 ELSE -1

RECURSIVE CumSum(_, _)
\* s['pnl_r'].cumsum() at row k (1-based)
CumSum(sdf, k) == IF k = 0 THEN 0 ELSE CumSum(sdf, k - 1) + PnlR(sdf[k].win_1r)

\* the columns of a row appended by detect_setups
DetectionColumns ==
    { "datetime",
      "c1_open", "c1_close", "c1_high", "c1_low", "c1_body", "c1_range",
      "c1_body_ratio", "c1_bullish", "c1_atr", "c1_wick_label",
      "c1_upper_wick_pct", "c1_lower_wick_pct", "c1_body_pct", "c1_wick_bucket",
      "c2_open", "c2_close", "c2_high", "c2_low", "c2_bullish", "c2_wick_label",
      "c2_upper_wick_pct", "c2_lower_wick_pct", "c2_body_pct", "c2_wick_bucket",
      "c3_open", "c3_close", "c3_high", "c3_low", "c3_bullish",
      "c3_breakout_margin", "c3_breakout_margin_pct", "c3_breakout_margin_r",
      "direction", "entry_price", "stop_loss", "risk", "risk_pct",
      "c4_close_r", "c4_mfe_r", "c4_mae_r", "c4_followed",
      "c4_open", "c4_close", "c4_high", "c4_low",
      "c5_close_r", "c5_mfe_r", "c5_mae_r", "c5_followed",
      "c5_open", "c5_close", "c5_high", "c5_low",
      "c6_close_r", "c6_mfe_r", "c6_mae_r", "c6_followed",
      "c6_open", "c6_close", "c6_high", "c6_low",
      "follow_count", "hit_1r", "hit_15r", "hit_2r", "hit_sl", "first_hit",
      "win_1r", "max_favorable_r", "max_adverse_r", "c1_direction_match",
      "c1_color", "c2_color", "scenario_key" }

\* the columns enrich_setups assigns on its copy of the Setup collection
AddedColumns ==
    { "zone", "zone_dist_pct", "zone_strength", "nearest_zone_type",
      "nearest_zone_top", "nearest_zone_bottom", "zone_proximity_band",
      "session", "news", "date", "month_name", "year_month", "day_name",
      "hour", "day_of_week", "alignment", "pnl_r", "cumulative_r" }

\* mutant of EnrichedRow: the enrichment clears first_hit
EnrichedRow_ClearsFirstHit(sdf, k, d1h, zs, event_dates, zone_lookback, zone_proximity) ==
    LET r == sdf[k]
        zi == ClassifyZone(r.datetime, r.entry_price, zs, zone_lookback,
                           ProximityArg(zone_proximity))
    IN  [setup |-> [r EXCEPT !.first_hit = None],
         zone_info |-> zi,
         session |-> ClassifySession(r.datetime),
         news |-> ClassifyNews(r.datetime, event_dates, d1h),
         date |-> Date(r.datetime),
         hour |-> Hour(r.datetime),
         alignment |-> IF r.c1_direction_match THEN "Aligned" ELSE "Counter",
         pnl_r |-> PnlR(r.win_1r),
         cumulative_r |-> CumSum(sdf, k)]

\* the columns enrich_setups adds to row k
EnrichedRow(sdf, k, d1h, zs, event_dates, zone_lookback, zone_proximity) ==
    LET r == sdf[k]
        zi == ClassifyZone(r.datetime, r.entry_price, zs, zone_lookback,
                           ProximityArg(zone_proximity))
    IN  [setup |-> r,
         zone_info |-> zi,
         session |-> ClassifySession(r.datetime),
         news |-> ClassifyNews(r.datetime, event_dates, d1h),
         date |-> Date(r.datetime),
         hour |-> Hour(r.datetime),
         alignment |-> IF r.c1_direction_match THEN "Aligned" ELSE "Counter",
         pnl_r |-> PnlR(r.win_1r),
         cumulative_r |-> CumSum(sdf, k)]

\* enrich_setups(sdf, df_1h, zones_df, event_dates, zone_lookback, zone_proximity)
EnrichSetups(sdf, d1h, zs, event_dates, zone_lookback, zone_proximity) ==
    IF Len(sdf) = 0 THEN << >>
    ELSE [k \in 1..Len(sdf) |->
            EnrichedRow(sdf, k, d1h, zs, event_dates, zone_lookback, zone_proximity)]

----------------------------------------------------------------------------
(* The pass over one series *)

\* (body_ratio_thresh, atr_mult) pairs tried
DetectParams ==
    { [thresh |-> Rat(13, 20), mult |-> Rat(13, 10)],
      [thresh |-> Rat(13, 20), mult |-> Rat(0, 1)] }

\* zone_atr_min values tried
ZoneMins == { Rat(3, 2) }

\* zone_proximity values tried, in percent as the caller gives them
Proximities == { Rat(3, 10) }

Lookbacks == 1..MaxLookback

\* event_dates values tried: no event day, or the first day of the series
EventDateSets == { {}, {0} }

NoArgs == [thresh |-> Rat(0, 1), mult |-> Rat(0, 1), zmin |-> Rat(0, 1),
           lookback |-> 0, proximity |-> Rat(0, 1), event_dates |-> {}]

\* the free window: four consecutive bars (a C1, C2, C3, C4), each of any shape
FreeWindows == Shapes \X Shapes \X Shapes \X Shapes

\* the second bar after the free window: filler like the rest, or, after a
\* flat run, a small rise
Tails(fill) == IF fill = FlatFill THEN {fill, Lift} ELSE {fill}

Init ==
    /\ \E fill \in Fillers, free \in FreeWindows :
          \E tail \in Tails(fill) :
             df = Series(SeriesLen, fill, free \o <<fill, tail>>)
    /\ pc = "loaded"
    /\ zones = << >>
    /\ setups = << >>
    /\ diag = DiagStart
    /\ args = NoArgs
    /\ enriched = << >>
    /\ ret = << >>
    /\ run = NoRun

\* zones = detect_zones(df, zone_strength_min)
CallDetectZones ==
    /\ pc = "loaded"
    /\ Len(df) >= MinCandles
    /\ \E zmin \in ZoneMins :
          /\ zones' = DetectZones(df, zmin)
          /\ args' = [args EXCEPT !.zmin = zmin]
    /\ pc' = "zoned"
    /\ UNCHANGED <<df, setups, diag, enriched, ret, run>>

\* setups, diag = detect_setups_with_diagnostics(df, body_ratio, atr_mult)
CallDetectSetupsWithDiagnostics ==
    /\ pc = "zoned"
    /\ \E p \in DetectParams :
          /\ setups' = DetectSetups(df, p.thresh, p.mult)
          /\ diag' = Diagnostics(df, p.thresh, p.mult)
          /\ args' = [args EXCEPT !.thresh = p.thresh, !.mult = p.mult]
    /\ pc' = "detected"
    /\ UNCHANGED <<df, zones, enriched, ret, run>>

\* setups = enrich_setups(setups, enrich_df, zones, event_dates, ...), reached
\* only when setups is not empty; enrich_df is df, the hourly series
CallEnrichSetups ==
    /\ pc = "detected"
    /\ Len(setups) > 0
    /\ \E lb \in Lookbacks, prox \in Proximities, ev \in EventDateSets :
          /\ enriched' = EnrichSetups(setups, df, zones, ev, lb, prox)
          /\ args' = [args EXCEPT !.lookback = lb, !.proximity = prox,
                                  !.event_dates = ev]
    /\ pc' = "enriched"
    /\ UNCHANGED <<df, zones, setups, diag, ret, run>>

Next == CallDetectZones \/ CallDetectSetupsWithDiagnostics \/ CallEnrichSetups

Spec == Init /\ [][Next]_vars

----------------------------------------------------------------------------
(* Properties of detect_setups *)

Detected == pc \in {"detected", "enriched"}

\* the position in d of the bar stamped dt
IndexOf(d, dt) == CHOOSE i \in 0..(Len(d) - 1) : Row(d, i).datetime = dt

SetupIdx == 1..Len(setups)

\* the anchor indices range(14, len(df) - 6) scans
Anchors(d) == IF Len(d) < MinBars THEN {} ELSE FirstAnchor..LastAnchor(d)

\* C1: every Setup returned by detect_setups has its C2 (the bar after the bar
\* at the Setup's origin timestamp) inside C1's range: C2.high <= C1.high and
\* C2.low >= C1.low.
C1_InsideBarInvariant ==
    Detected =>
        \A k \in SetupIdx :
            LET i == IndexOf(df, setups[k].datetime)
            IN  /\ Row(df, i + 1).High <= Row(df, i).High
                /\ Row(df, i + 1).Low >= Row(df, i).Low
                /\ setups[k].c2.High <= setups[k].c1.High
                /\ setups[k].c2.Low >= setups[k].c1.Low

\* a Setup whose C2 has exactly C1's high (the bound of the gate is reached)
C1_Witness ==
    /\ Detected
    /\ \E k \in SetupIdx :
          /\ setups[k].c2.High = setups[k].c1.High
          /\ setups[k].c2.Low >= setups[k].c1.Low

\* C2: a Setup is LONG only if C3.close > C2.high, SHORT only if
\* C3.close < C2.low, and an anchor whose C3 closes within [C2.low, C2.high]
\* (the two ends included) has no Setup.
C2_StrictBreakout ==
    Detected =>
        /\ \A k \in SetupIdx :
              LET i == IndexOf(df, setups[k].datetime)
                  c2 == Row(df, i + 1)
                  c3 == Row(df, i + 2)
              IN  /\ setups[k].direction \in {"LONG", "SHORT"}
                  /\ setups[k].direction = "LONG" => c3.Close > c2.High
                  /\ setups[k].direction = "SHORT" => c3.Close < c2.Low
        /\ \A i \in Anchors(df) :
              (Row(df, i + 1).Low <= Row(df, i + 2).Close
                  /\ Row(df, i + 2).Close <= Row(df, i + 1).High)
              => ~\E k \in SetupIdx : setups[k].datetime = Row(df, i).datetime

\* an anchor that passes the C1 and C2 gates and whose C3 closes exactly at
\* C2.high, C2 having a range, while another anchor of the series gave a Setup
C2_Witness ==
    /\ Detected
    /\ Len(setups) > 0
    /\ \E i \in Anchors(df) :
          /\ ~AtrUnusable(WithColumns(df), i)
          /\ BrPass(df, i, args.thresh)
          /\ AtrPass(WithColumns(df), i, args.mult)
          /\ Row(df, i + 1).High <= Row(df, i).High
          /\ Row(df, i + 1).Low >= Row(df, i).Low
          /\ Row(df, i + 1).Low < Row(df, i + 1).High
          /\ Row(df, i + 2).Close = Row(df, i + 1).High

\* C3: every Setup has entry_price = C3.close, stop_loss = C2.low when LONG and
\* C2.high when SHORT, risk = entry - stop when LONG and stop - entry when
\* SHORT, and risk > 0.
C3_EntryStopRisk ==
    Detected =>
        \A k \in SetupIdx :
            LET s == setups[k]
                i == IndexOf(df, s.datetime)
                c2 == Row(df, i + 1)
                c3 == Row(df, i + 2)
            IN  /\ s.entry_price = c3.Close
                /\ s.direction = "LONG" =>
                      s.stop_loss = c2.Low /\ s.risk = s.entry_price - s.stop_loss
                /\ s.direction = "SHORT" =>
                      s.stop_loss = c2.High /\ s.risk = s.stop_loss - s.entry_price
                /\ s.risk > 0

\* a series with a LONG Setup and a SHORT Setup
C3_Witness ==
    /\ Detected
    /\ \E k \in SetupIdx : setups[k].direction = "LONG"
    /\ \E k \in SetupIdx : setups[k].direction = "SHORT"

\* the bars of the lookahead window of the Setup anchored at i
Window(d, i) == (i + 3)..(Min(i + 23, Len(d)) - 1)

\* bar j touches the Setup's stop-loss level / its 1R level
SLTouch(d, j, s) ==
    IF s.direction = "LONG" THEN Row(d, j).Low <= s.stop_loss
    ELSE Row(d, j).High >= s.stop_loss
R1Touch(d, j, s) ==
    IF s.direction = "LONG" THEN Row(d, j).High >= s.entry_price + s.risk
    ELSE Row(d, j).Low <= s.entry_price - s.risk

\* C4: first_hit is decided by the earliest bar of the lookahead window that
\* touches the stop-loss or the 1R level: 'SL' if that bar touches the
\* stop-loss (also when it touches 1R as well), '1R' otherwise; first_hit is
\* absent iff no bar of the window touches either level.
C4_FirstHit ==
    Detected =>
        \A k \in SetupIdx :
            LET s == setups[k]
                i == IndexOf(df, s.datetime)
                touching == {j \in Window(df, i) : SLTouch(df, j, s) \/ R1Touch(df, j, s)}
            IN  IF touching = {} THEN s.first_hit = None
                ELSE LET j0 == CHOOSE j \in touching : \A j2 \in touching : j <= j2
                     IN  s.first_hit = IF SLTouch(df, j0, s) THEN "SL" ELSE "1R"

\* the earliest touching bar of s's window touches both levels
TieAtFirstTouch(s) ==
    LET i == IndexOf(df, s.datetime)
        touching == {j \in Window(df, i) : SLTouch(df, j, s) \/ R1Touch(df, j, s)}
    IN  /\ touching # {}
        /\ LET j0 == CHOOSE j \in touching : \A j2 \in touching : j <= j2
           IN  SLTouch(df, j0, s) /\ R1Touch(df, j0, s)

\* a SHORT Setup whose earliest touching bar touches both levels (the LONG
\* tie is reached by other series of the same specification)
C4_Witness ==
    /\ Detected
    /\ \E k \in SetupIdx :
          /\ setups[k].direction = "SHORT"
          /\ TieAtFirstTouch(setups[k])
          /\ setups[k].hit_sl /\ setups[k].hit_1r

\* C4's close is in profit relative to entry in the breakout direction
C4InProfit(d, s) ==
    LET c4 == Row(d, IndexOf(d, s.datetime) + 3)
    IN  IF s.direction = "LONG" THEN c4.Close > s.entry_price
        ELSE c4.Close < s.entry_price

\* C5: win_1r is true when first_hit is 1R, false when first_hit is SL, and
\* when neither level was touched in the lookahead window it is true iff C4's
\* close is in profit relative to entry in the breakout direction.
C5_WinLabel ==
    Detected =>
        \A k \in SetupIdx :
            LET s == setups[k]
            IN  /\ s.first_hit = "1R" => s.win_1r
                /\ s.first_hit = "SL" => ~s.win_1r
                /\ s.first_hit = None => (s.win_1r <=> C4InProfit(df, s))

\* C6: the pass_valid_risk count of the funnel equals the number of Setups
\* returned alongside it.
C6_DiagMatchesDetector ==
    Detected => diag.pass_valid_risk = Len(setups)

\* C7 as claimed: the funnel counts are non-increasing from each stage to the
\* next in stage order, pass_body_ratio >= pass_body_atr included.
C7_FunnelMonotone ==
    Detected =>
        /\ diag.total_scanned >= diag.pass_body_ratio
        /\ diag.pass_body_ratio >= diag.pass_body_atr
        /\ diag.pass_body_atr >= diag.pass_both_c1
        /\ diag.pass_both_c1 >= diag.pass_inside_bar
        /\ diag.pass_inside_bar >= diag.pass_c3_breakout
        /\ diag.pass_c3_breakout >= diag.pass_valid_risk

\* C7 amended: pass_body_ratio and pass_body_atr are counted independently of
\* each other; each is at most total_scanned and at least pass_both_c1, and
\* from pass_both_c1 on the counts are non-increasing.
C7_FunnelOrder ==
    Detected =>
        /\ diag.total_scanned >= diag.pass_body_ratio
        /\ diag.total_scanned >= diag.pass_body_atr
        /\ diag.pass_body_ratio >= diag.pass_both_c1
        /\ diag.pass_body_atr >= diag.pass_both_c1
        /\ diag.pass_both_c1 >= diag.pass_inside_bar
        /\ diag.pass_inside_bar >= diag.pass_c3_breakout
        /\ diag.pass_c3_breakout >= diag.pass_valid_risk

\* a funnel in which more anchors pass the body-size gate than the body-ratio
\* gate, and some anchor passes every stage
C7_Witness ==
    /\ Detected
    /\ diag.pass_body_atr > diag.pass_body_ratio
    /\ diag.pass_valid_risk > 0
    /\ diag.pass_inside_bar > diag.pass_c3_breakout

----------------------------------------------------------------------------
(* Properties of classify_zone and enrich_setups *)

Enriched == pc = "enriched"

RowIdx == 1..Len(enriched)

ZoneSet == { zones[k] : k \in 1..Len(zones) }

\* the active set of the query enrich_setups makes for row k
ActiveFor(k) ==
    LET rec == Recent(zones, enriched[k].setup.datetime, args.lookback)
    IN  { rec[j] : j \in 1..Len(rec) }

\* C9: no zone whose origin timestamp is equal to or later than the query time
\* is active, and the nearest zone of every enriched Setup has an origin
\* strictly earlier than the Setup's own origin timestamp.
C9_NoZoneFromTheFuture ==
    Enriched =>
        \A k \in RowIdx :
            LET r == enriched[k]
            IN  /\ \A z \in ActiveFor(k) : z.datetime < r.setup.datetime
                /\ r.zone_info.nearest_zone_datetime # Absent =>
                      r.zone_info.nearest_zone_datetime[1] < r.setup.datetime

\* a Setup whose own C1 is a zone origin and whose nearest zone is an earlier one
C9_Witness ==
    /\ Enriched
    /\ \E k \in RowIdx :
          /\ enriched[k].zone_info.nearest_zone_datetime # Absent
          /\ \E z \in ZoneSet : z.datetime = enriched[k].setup.datetime
          /\ \E z \in ZoneSet : z.datetime > enriched[k].setup.datetime

\* C10 as claimed: a zone whose origin timestamp is exactly
\* query_time - lookback_hours is not in the active set.
C10_LowerBoundExcluded ==
    Enriched =>
        \A k \in RowIdx : \A z \in ZoneSet :
            z.datetime = enriched[k].setup.datetime - args.lookback
                => z \notin ActiveFor(k)

\* C10 amended: a zone whose origin timestamp is exactly
\* query_time - lookback_hours is in the active set (the lower bound of the
\* lookback window is inclusive), so the query reports a nearest zone.
C10_LowerBoundIncluded ==
    Enriched =>
        \A k \in RowIdx : \A z \in ZoneSet :
            z.datetime = enriched[k].setup.datetime - args.lookback
                => /\ z \in ActiveFor(k)
                   /\ enriched[k].zone_info.zone_proximity_band # "No Zone"
                   /\ enriched[k].zone_info.nearest_zone_datetime # Absent

\* a Setup whose nearest zone is the zone at exactly query_time - lookback_hours
C10_Witness ==
    /\ Enriched
    /\ \E k \in RowIdx :
          enriched[k].zone_info.nearest_zone_datetime
              = Some(enriched[k].setup.datetime - args.lookback)

----------------------------------------------------------------------------
(* classify_zone called on its own *)

\* a row of zones_df as detect_zones builds it
Zone(dt, type, bottom, top) ==
    [datetime |-> dt, zone_top |-> top, zone_bottom |-> bottom,
     zone_type |-> type, strength |-> IF type = "supply" THEN 200 ELSE 150,
     origin_body |-> 600, origin_range |-> 1000]

\* the origin times of the zones tried, and the query times
ZoneTimes == ZoneWarmup..(ZoneWarmup + 2)
QueryTimes == {ZoneWarmup + 2, ZoneWarmup + 3}

\* the (bottom, top) edges of the zones tried
ZoneEdges == { <<99000, 100000>>, <<100100, 100500>>, <<100301, 101000>> }

\* the query prices tried: on an edge, inside, just outside, far off
QueryPrices == { 99000, 99500, 100000, 100001, 98000 }

NoKind == <<"none", <<0, 0>>>>
ZoneKinds == {"supply", "demand"} \X ZoneEdges

\* zones_df for a choice of at most one zone per origin time, in time order
ZonesOf(f) ==
    LET all == [k \in 1..Cardinality(ZoneTimes) |->
                   LET t == ZoneWarmup + k - 1
                   IN  Zone(t, f[t][1], f[t][2][1], f[t][2][2])]
    IN  SelectSeq(all, LAMBDA z : z.zone_type # "none")

ZoneLists == { ZonesOf(f) : f \in [ZoneTimes -> ZoneKinds \cup {NoKind}] }

QueryArgs ==
    [dt : QueryTimes, price : QueryPrices, lookback_hours : Lookbacks,
     proximity_pct : { ProximityArg(p) : p \in Proximities }]

InitZoneQuery ==
    /\ df = << >>
    /\ pc = "query"
    /\ zones \in ZoneLists
    /\ setups = << >>
    /\ diag = DiagStart
    /\ args \in QueryArgs
    /\ enriched = << >>
    /\ ret = << >>
    /\ run = NoRun

\* classify_zone(dt, price, zones_df, lookback_hours, proximity_pct)
CallClassifyZone ==
    /\ pc = "query"
    /\ ret' = ClassifyZone(args.dt, args.price, zones, args.lookback_hours,
                           args.proximity_pct)
    /\ pc' = "classified"
    /\ UNCHANGED <<df, zones, setups, diag, args, enriched, run>>

NextZoneQuery == CallClassifyZone

SpecZoneQuery == InitZoneQuery /\ [][NextZoneQuery]_vars

Classified == pc = "classified"

\* the zones of zones_df active for the query, and those holding the price
ActiveZones ==
    { zones[k] : k \in { j \in 1..Len(zones) :
          zones[j].datetime >= args.dt - args.lookback_hours
              /\ zones[j].datetime < args.dt } }

Holds(z, price) == z.zone_bottom <= price /\ price <= z.zone_top

\* C11: when the query price lies within [bottom, top] of some active zone,
\* the two ends included, classify_zone reports distance 0 and the band
\* 'Inside Zone', whatever other zones are active.
C11_InsideZoneDistanceZero ==
    Classified =>
        ((\E z \in ActiveZones : Holds(z, args.price))
            => /\ ret.zone_dist_pct = Some(0)
               /\ ret.zone_proximity_band = "Inside Zone")

\* a query whose price is exactly the top of an active zone while a later
\* active zone does not hold the price
C11_Witness ==
    /\ Classified
    /\ \E z \in ActiveZones :
          /\ args.price = z.zone_top
          /\ \E z2 \in ActiveZones :
                z2.datetime > z.datetime /\ ~Holds(z2, args.price)
    /\ ret.zone_proximity_band = "Inside Zone"

----------------------------------------------------------------------------
(* The core functions called on their own, on series of any length *)

\* series lengths tried: 0..CoreMaxLen
CoreMaxLen == 26

\* after thirteen SmallFill bars: TR = 150 and ATR = 20, body 26 = 1.3 * ATR
Edge == Bar(100002, 100100, 99950, 100028)
\* after thirteen SmallFill bars: TR = 100, body 20 between ATR and 1.3 * ATR
Mid == Bar(100002, 100060, 99960, 100022)

CoreShapes == {SmallFill, BigUp, BigDown, Flat, Edge, Mid}

\* index of the first freely chosen bar of a core series
CoreFreeStart == ZoneWarmup - 3

\* a series of n hourly bars: filler except bars CoreFreeStart.., which are the
\* bars of free as far as the series reaches
CoreSeries(n, fill, free) ==
    [k \in 1..n |->
        LET i == k - 1
            b == IF i >= CoreFreeStart /\ i < CoreFreeStart + Len(free)
                 THEN free[i - CoreFreeStart + 1] ELSE fill
        IN  [datetime |-> i, Open |-> b.Open, High |-> b.High,
             Low |-> b.Low, Close |-> b.Close]]

CoreWindows == CoreShapes \X CoreShapes \X {SmallFill, BigUp, Flat} \X CoreShapes

\* two windows reaching one bar further, so that bars 20 and 21 both qualify
\* as zone origins
CoreLongWindows ==
    { <<BigUp, SmallFill, Flat, BigUp, BigUp>>,
      <<BigDown, Flat, SmallFill, BigDown, BigUp>> }

\* zone_atr_min values tried
CoreZoneMins == { Rat(1, 1), Rat(13, 10) }

InitCore ==
    /\ df \in { CoreSeries(n, fill, free) :
                  n \in 0..CoreMaxLen, fill \in Fillers,
                  free \in CoreWindows \cup CoreLongWindows }
    /\ pc = "loaded"
    /\ zones = << >>
    /\ setups = << >>
    /\ diag = DiagStart
    /\ args = NoArgs
    /\ enriched = << >>
    /\ ret = << >>
    /\ run = NoRun

\* detect_zones(df, zone_atr_min)
CoreDetectZones ==
    /\ pc = "loaded"
    /\ \E zmin \in CoreZoneMins :
          /\ zones' = DetectZones(df, zmin)
          /\ args' = [args EXCEPT !.zmin = zmin]
    /\ pc' = "zoned"
    /\ UNCHANGED <<df, setups, diag, enriched, ret, run>>

\* detect_setups_with_diagnostics(df, body_ratio_thresh, atr_mult)
CoreDetectSetupsWithDiagnostics ==
    /\ pc = "zoned"
    /\ \E p \in DetectParams :
          /\ setups' = DetectSetups(df, p.thresh, p.mult)
          /\ diag' = Diagnostics(df, p.thresh, p.mult)
          /\ args' = [args EXCEPT !.thresh = p.thresh, !.mult = p.mult]
    /\ pc' = "detected"
    /\ UNCHANGED <<df, zones, enriched, ret, run>>

\* enrich_setups(setups, df, zones, event_dates, zone_lookback, zone_proximity)
CoreEnrichSetups ==
    /\ pc = "detected"
    /\ \E lb \in Lookbacks, prox \in Proximities :
          /\ enriched' = EnrichSetups(setups, df, zones, {}, lb, prox)
          /\ args' = [args EXCEPT !.lookback = lb, !.proximity = prox]
    /\ pc' = "enriched"
    /\ UNCHANGED <<df, zones, setups, diag, ret, run>>

NextCore == CoreDetectZones \/ CoreDetectSetupsWithDiagnostics \/ CoreEnrichSetups

SpecCore == InitCore /\ [][NextCore]_vars

Zoned == pc \in {"zoned", "detected", "enriched"}

\* C12: for a series of fewer than 20 bars, the empty series included,
\* detect_zones and detect_setups return empty collections, the funnel of
\* detect_setups_with_diagnostics has every count 0, and enrich_setups returns
\* the empty collection it was given.
C12_ShortSeriesEmpty ==
    Len(df) < 20 =>
        /\ Zoned => zones = << >>
        /\ Detected => (setups = << >> /\ diag = DiagStart)
        /\ Enriched => (enriched = << >> /\ enriched = setups)

\* a 19-bar series run to the end, one of whose bars past the ATR warm-up has
\* a body that would make it a zone origin
C12_Witness ==
    /\ Enriched
    /\ Len(df) = 19
    /\ \E i \in FirstAnchor..(Len(df) - 1) :
          ~ZoneSkipped(WithColumns(df), i, args.zmin)

\* the bars of a series from the first anchor on
FromFirstAnchor(d) == FirstAnchor..(Len(d) - 1)

\* ATR is defined and not zero at every bar from the first anchor on
\* (d carries the ATR column, as do the frames of the operators below)
AtrUsableThroughout(d) ==
    \A i \in FromFirstAnchor(d) : ATRSum(d, i) > 0

\* the body of bar i exceeds / reaches m * ATR
BodyExceeds(d, i, m) ==
    Body(d, i) * AtrWindow * m.den > ATRSum(d, i) * m.num
BodyReaches(d, i, m) ==
    Body(d, i) * AtrWindow * m.den >= ATRSum(d, i) * m.num

\* C13 as claimed: on a 25-bar series with a usable ATR from the first anchor
\* on and no body exceeding atr_mult * ATR, zones and setups are empty,
\* total_scanned > 0 and pass_body_atr = 0.
C13_QuietSeriesAsClaimed ==
    (Detected /\ Len(df) = 25
        /\ LET dc == WithColumns(df)
           IN  /\ AtrUsableThroughout(dc)
               /\ \A i \in FromFirstAnchor(dc) : ~BodyExceeds(dc, i, args.mult))
    => /\ zones = << >>
       /\ setups = << >>
       /\ diag.total_scanned > 0
       /\ diag.pass_body_atr = 0

\* C13 amended: on a 25-bar series with a usable ATR from the first anchor on
\* and every body strictly below atr_mult * ATR, setups are empty,
\* total_scanned > 0 and pass_body_atr = 0; zones are empty when zone_atr_min
\* is at least atr_mult.
C13_QuietSeries ==
    (Detected /\ Len(df) = 25
        /\ LET dc == WithColumns(df)
           IN  /\ AtrUsableThroughout(dc)
               /\ \A i \in FromFirstAnchor(dc) : ~BodyReaches(dc, i, args.mult))
    => /\ setups = << >>
       /\ diag.total_scanned > 0
       /\ diag.pass_body_atr = 0
       /\ args.zmin.num * args.mult.den >= args.mult.num * args.zmin.den
              => zones = << >>

\* a quiet 25-bar series in which an anchor's body is above its ATR, though
\* below atr_mult * ATR
C13_Witness ==
    /\ Detected
    /\ Len(df) = 25
    /\ LET dc == WithColumns(df)
       IN  /\ AtrUsableThroughout(dc)
           /\ \A i \in FromFirstAnchor(dc) : ~BodyReaches(dc, i, args.mult)
           /\ \E i \in Anchors(dc) : BodyExceeds(dc, i, Rat(1, 1))
    /\ diag.total_scanned > 0

\* C14 as claimed: 20 bars are enough for detect_setups to evaluate an anchor
\* and for detect_zones to produce a Zone: a 20-bar series has a candidate
\* anchor, and its last bar, when its body reaches zone_atr_min * ATR with a
\* usable ATR, gives a Zone.
C14_MinLength20 ==
    (Detected /\ Len(df) = 20)
    => /\ Anchors(df) # {}
       /\ LET dc == WithColumns(df)
          IN  (ATRSum(dc, 19) > 0 /\ BodyReaches(dc, 19, args.zmin))
                  => zones # << >>

\* C14 amended: the minimum length is 21 bars.  A series of at most 20 bars
\* gives no Zone, has no candidate anchor and scans none; a 21-bar series has
\* exactly the anchor 14, scanned when its ATR is usable, and its last bar,
\* when its body reaches zone_atr_min * ATR with a usable ATR, gives a Zone.
C14_MinLength21 ==
    /\ (Zoned /\ Len(df) <= 20) => zones = << >>
    /\ (Detected /\ Len(df) <= 20)
          => (Anchors(df) = {} /\ diag.total_scanned = 0 /\ setups = << >>)
    /\ (Detected /\ Len(df) = 21)
          => LET dc == WithColumns(df)
             IN  /\ Anchors(df) = {14}
                 /\ ATRSum(dc, 14) > 0 => diag.total_scanned = 1
                 /\ (ATRSum(dc, 20) > 0 /\ BodyReaches(dc, 20, args.zmin))
                        => (Len(zones) = 1 /\ zones[1].datetime = Row(df, 20).datetime)

\* a 21-bar series that yields a Zone and whose one anchor is scanned
C14_Witness ==
    /\ Detected
    /\ Len(df) = 21
    /\ zones # << >>
    /\ diag.total_scanned = 1

ZoneIdx == 1..Len(zones)

\* the bars detect_zones looks at
ZoneBars(d) == ZoneWarmup..(Len(d) - 1)

\* the body of bar i is exactly m * ATR, the ATR being usable
BodyAtThreshold(d, i, m) ==
    /\ ATRSum(d, i) > 0
    /\ Body(d, i) * AtrWindow * m.den = ATRSum(d, i) * m.num

\* C15 as claimed: every Zone has strength strictly greater than
\* zone_atr_min, and a bar whose body is exactly zone_atr_min * ATR gives no
\* Zone.
C15_StrengthAboveMin ==
    Zoned =>
        LET dc == WithColumns(df)
        IN  /\ \A k \in ZoneIdx :
                  zones[k].strength * args.zmin.den > args.zmin.num * 100
            /\ \A i \in ZoneBars(df) :
                  BodyAtThreshold(dc, i, args.zmin)
                      => ~\E k \in ZoneIdx : zones[k].datetime = Row(df, i).datetime

\* C15 amended: every Zone has origin body >= zone_atr_min * ATR of its origin
\* bar, its stored strength being body / ATR rounded to two decimals, and a
\* bar from index 20 on whose body is exactly zone_atr_min * ATR gives a Zone.
C15_StrengthAtLeastMin ==
    Zoned =>
        LET dc == WithColumns(df)
        IN  /\ \A k \in ZoneIdx :
                  LET i == IndexOf(df, zones[k].datetime)
                      atr == ATRSum(dc, i)
                  IN  /\ atr > 0
                      /\ zones[k].origin_body = Body(df, i)
                      /\ BodyReaches(dc, i, args.zmin)
                      /\ zones[k].strength
                             = RoundScaled(zones[k].origin_body * AtrWindow, atr, 100)
            /\ \A i \in ZoneBars(df) :
                  BodyAtThreshold(dc, i, args.zmin)
                      => \E k \in ZoneIdx : zones[k].datetime = Row(df, i).datetime

\* a Zone whose origin body is exactly zone_atr_min * ATR
C15_Witness ==
    /\ Zoned
    /\ \E k \in ZoneIdx :
          /\ BodyAtThreshold(WithColumns(df), IndexOf(df, zones[k].datetime),
                             args.zmin)
          /\ zones[k].strength * args.zmin.den = args.zmin.num * 100

----------------------------------------------------------------------------
(* Properties of the Setup collection and of its enrichment *)

\* C16: the Setups are in strictly increasing order of origin timestamp, hence
\* at most one per origin timestamp, and enrich_setups keeps their number and
\* order.
C16_ChronologicalOrder ==
    /\ Detected =>
          \A j, k \in SetupIdx : j < k => setups[j].datetime < setups[k].datetime
    /\ Enriched =>
          /\ Len(enriched) = Len(setups)
          /\ \A k \in RowIdx : enriched[k].setup.datetime = setups[k].datetime
          /\ \A j, k \in RowIdx :
                j < k => enriched[j].setup.datetime < enriched[k].setup.datetime

\* an enriched collection of at least two Setups
C16_Witness ==
    /\ Enriched
    /\ Len(enriched) >= 2

\* the rows up to k that are wins / losses
WinsUpTo(k) == { j \in 1..k : enriched[j].setup.win_1r }
LossesUpTo(k) == { j \in 1..k : ~enriched[j].setup.win_1r }

\* C17: pnl_r is +1 for a win and -1 otherwise, and cumulative_r of the k-th
\* Setup is the sum of pnl_r over the first k Setups: wins minus losses so
\* far, moving by exactly +1 or -1 from one Setup to the next.
C17_RunningPnl ==
    Enriched =>
        \A k \in RowIdx :
            /\ enriched[k].pnl_r = IF enriched[k].setup.win_1r THEN 1 ELSE -1
            /\ enriched[k].cumulative_r
                   = Cardinality(WinsUpTo(k)) - Cardinality(LossesUpTo(k))
            /\ enriched[k].cumulative_r
                   = (IF k = 1 THEN 0 ELSE enriched[k - 1].cumulative_r)
                         + enriched[k].pnl_r

\* a series with a winning and a losing Setup
C17_Witness ==
    /\ Enriched
    /\ \E j, k \in RowIdx :
          j < k /\ enriched[j].setup.win_1r # enriched[k].setup.win_1r

\* C18: enrich_setups only adds fields. No column it assigns is a column of
\* detection; the step that enriches returns one row per Setup, in the same
\* order, each carrying its Setup with every detection-time value as it was;
\* and the Setup collection, the Zone collection and the series passed in
\* are the same after the step as before it.
C18_EnrichOnlyAdds ==
    [][pc' = "enriched" =>
          /\ AddedColumns \cap DetectionColumns = {}
          /\ Len(enriched') = Len(setups)
          /\ \A k \in 1..Len(setups) : enriched'[k].setup = setups[k]
          /\ setups' = setups
          /\ zones' = zones
          /\ df' = df]_vars

\* two Setups, one of which hit its stop or its target, enriched against a
\* non-empty Zone collection
C18_Witness ==
    /\ Enriched
    /\ Len(enriched) >= 2
    /\ Len(zones) >= 1
    /\ \E k \in RowIdx : enriched[k].setup.first_hit # None

----------------------------------------------------------------------------
(* Zero-range bars and the ATR warm-up *)

ZeroRange(b) == b.High = b.Low

\* the wick profile the code returns without dividing
DojiOfZeroRange(b) ==
    [label |-> "Doji", upper_pct |-> 0, lower_pct |-> 0, body_pct |-> 0,
     is_bullish |-> b.Close >= b.Open, divisors |-> {}]

\* C19: for a bar with high = low, classify_wick_profile returns Doji with
\* upper-wick, lower-wick and body percentages all 0 and divides by nothing;
\* and in a series holding zero-range bars no division the detectors perform
\* is by zero: the wick profiles stored in a Setup were computed without a
\* zero divisor, a Setup's risk (the divisor of its R multiples) is positive,
\* and a Zone's origin has a positive ATR (the divisor of its strength).
C19_ZeroRangeBars ==
    /\ \A i \in 1..Len(df) :
          ZeroRange(df[i]) => WickProfileOf(df[i]) = DojiOfZeroRange(df[i])
    /\ Detected =>
          \A k \in SetupIdx :
              /\ 0 \notin (setups[k].c1_wick.divisors \cup setups[k].c2_wick.divisors)
              /\ ZeroRange(setups[k].c1) => setups[k].c1_wick = DojiOfZeroRange(setups[k].c1)
              /\ ZeroRange(setups[k].c2) => setups[k].c2_wick = DojiOfZeroRange(setups[k].c2)
              /\ setups[k].risk > 0
    /\ Zoned =>
          LET dc == WithColumns(df)
          IN  \A k \in ZoneIdx :
                  /\ ~ATRIsNaN(dc, zones[k].datetime)
                  /\ ATRSum(dc, zones[k].datetime) > 0

\* a series with zero-range bars in which a Zone was found and a Setup was
\* found whose anchor and whose inside bar are both zero-range bars
C19_Witness ==
    /\ Detected
    /\ Len(zones) >= 1
    /\ \E k \in SetupIdx : ZeroRange(setups[k].c1) /\ ZeroRange(setups[k].c2)
    /\ \E i \in 1..Len(df) : ZeroRange(df[i]) /\ i > TailBars + FirstAnchor

\* bar i of a frame carrying the ATR column has an undefined or a zero ATR
UndefinedOrZeroAtr(dc, i) == ATRIsNaN(dc, i) \/ Row(dc, i).ATR = 0

\* C20: ATR is the mean of the true range over a 14-bar window (14 times the
\* ATR of a bar is the sum of the true ranges of the bar and the 13 before it)
\* and is undefined, not zero, for the first 13 bars of a series (the code
\* leaves the bar after them undefined as well, the first true range being
\* undefined itself); no Setup has as its anchor and no Zone has as its origin
\* a bar whose ATR is undefined or zero, and total_scanned counts none of
\* these bars: it is the number of visited bars with a defined, non-zero ATR.
\* (The ATR column is compared on the series as loaded; no call changes df.)
C20_AtrWarmup ==
    LET dc == WithColumns(df)
    IN  /\ pc = "loaded" =>
              \A i \in 0..(Len(df) - 1) :
                  /\ i < AtrWindow - 1 => ATRIsNaN(dc, i)
                  /\ ~ATRIsNaN(dc, i) =>
                         Row(dc, i).ATR = SumTR(df, i - (AtrWindow - 1), i)
        /\ Zoned =>
              \A k \in ZoneIdx : ~UndefinedOrZeroAtr(dc, zones[k].datetime)
        /\ Detected =>
              /\ \A k \in SetupIdx : ~UndefinedOrZeroAtr(dc, setups[k].datetime)
              /\ diag.total_scanned =
                     Cardinality({ i \in Anchors(df) : ~UndefinedOrZeroAtr(dc, i) })

\* a series with a Zone, a Setup, and a visited bar whose ATR is zero
C20_Witness ==
    /\ Detected
    /\ Len(zones) >= 1
    /\ Len(setups) >= 1
    /\ diag.total_scanned >= 1
    /\ \E i \in Anchors(df) : Row(WithColumns(df), i).ATR = 0

----------------------------------------------------------------------------
(* main: the pass over the selected timeframes of one instrument *)

\* a bar far wider than any other
Huge == Bar(100000, 110000, 90000, 100000)

\* the stamp of the first bar of the hourly feed; its last bar is the second
\* of the fourth day
FeedStart == 3 * 24 + 2 - FeedLen

\* the stamps at which the free window may start: late on the second day, or
\* late on the third, fewer than 23 bars before the end of the feed
WindowStamps == { FreeStart + 24, FreeStart + 44 }

\* the stamp 23 bars after the earlier window start: the first bar past the
\* lookahead of a Setup anchored there
PastLookahead == FreeStart + 24 + 23

\* the hourly feed: filler, a free window starting at stamp `at`, possibly a
\* wide bar late on the first day and possibly one at stamp PastLookahead
HourlyFeed(fill, free, early, at, late) ==
    [k \in 1..FeedLen |->
        LET t == FeedStart + k - 1
            b == IF t = FreeStart THEN early
                 ELSE IF t >= at /\ t < at + Len(free) THEN free[t - at + 1]
                 ELSE IF t = PastLookahead THEN late
                 ELSE fill
        IN  [datetime |-> t, Open |-> b.Open, High |-> b.High,
             Low |-> b.Low, Close |-> b.Close]]

\* the sub-hourly feed reaches less far back than the hourly one
\* (INTERVAL_MAX_DAYS): here the same bars from a later start on, every frame
\* keeping one bar per stamp
ShortFeed(d1h) == SubSeq(d1h, Len(d1h) - MinCandles + 1, Len(d1h))

\* resample_to_4h(df): one bar per 4-hour bin that holds a bar
ResampleTo4h(d) ==
    LET bins == { d[k].datetime \div 4 : k \in 1..Len(d) }
        bin(j) == CHOOSE b \in bins : Cardinality({ c \in bins : c < b }) = j - 1
        rows(b) == { k \in 1..Len(d) : d[k].datetime \div 4 = b }
        first(b) == CHOOSE k \in rows(b) : \A m \in rows(b) : k <= m
        last(b) == CHOOSE k \in rows(b) : \A m \in rows(b) : k >= m
        high(b) == CHOOSE h \in { d[k].High : k \in rows(b) } :
                       \A k \in rows(b) : d[k].High <= h
        low(b) == CHOOSE l \in { d[k].Low : k \in rows(b) } :
                      \A k \in rows(b) : d[k].Low >= l
    IN  [j \in 1..Cardinality(bins) |->
            [datetime |-> 4 * bin(j), Open |-> d[first(bin(j))].Open,
             High |-> high(bin(j)), Low |-> low(bin(j)),
             Close |-> d[last(bin(j))].Close]]

\* d[k] = v on a dict
Put(d, k, v) == [x \in DOMAIN d \cup {k} |-> IF x = k THEN v ELSE d[x]]

\* the sidebar values of the pass
RunArgs == [thresh |-> Rat(13, 20), mult |-> Rat(13, 10), zmin |-> Rat(3, 2),
            lookback |-> MaxLookback, proximity |-> Rat(3, 10), event_dates |-> {}]

\* raw_interval for a timeframe
RawInterval(tf) == IF tf \in {"15m", "30m"} THEN tf ELSE "1h"

\* the part of the loop body from detect_zones on, for the series frame and
\* the series enrich_df handed to the enrichment
UnitOfWork(frame, enrich_df) ==
    LET z == DetectZones(frame, RunArgs.zmin)
        s == DetectSetups(frame, RunArgs.thresh, RunArgs.mult)
        g == Diagnostics(frame, RunArgs.thresh, RunArgs.mult)
    IN  [diag |-> g, zones |-> z,
         setups |-> IF Len(s) = 0 THEN << >>
                    ELSE EnrichSetups(s, enrich_df, z, RunArgs.event_dates,
                                      RunArgs.lookback, RunArgs.proximity)]

Timeframes == {"15m", "1H", "4H"}

\* the orders in which a selection of timeframes can be listed
Selections ==
    { << >> } \cup { <<a>> : a \in Timeframes }
      \cup { t \in Timeframes \X Timeframes : t[1] # t[2] }
      \cup { t \in Timeframes \X Timeframes \X Timeframes :
                 t[1] # t[2] /\ t[1] # t[3] /\ t[2] # t[3] }

\* a bar reaching below 99998 and above 104002, short of 105003
Whip == Bar(100000, 104100, 99000, 100000)

RunWindows ==
    { <<BigUp, Inside, Above, Flat>>, <<BigDown, Inside, Below, Flat>>,
      <<BigUp, Flat, At, Above>>, <<Flat, Flat, Flat, Flat>>,
      <<BigUp, Flat, At, Whip>> }

InitRun ==
    /\ df = << >>
    /\ pc = "run"
    /\ zones = << >>
    /\ setups = << >>
    /\ diag = DiagStart
    /\ args = RunArgs
    /\ enriched = << >>
    /\ ret = << >>
    /\ \E fill \in Fillers, free \in RunWindows, wide \in BOOLEAN,
          at \in WindowStamps, spike \in BOOLEAN, sel \in Selections :
          LET early == IF wide THEN Huge ELSE fill
              late == IF spike THEN Huge ELSE fill
              d1h == HourlyFeed(fill, free, early, at, late)
          IN  run = [feed |-> [x \in {"15m", "1h"} |->
                                  IF x = "1h" THEN d1h ELSE ShortFeed(d1h)],
                     timeframes |-> sel,
                     fetched_dfs |-> << >>,
                     all_diagnostics |-> << >>,
                     all_results |-> << >>]

\* one turn of `for tf in timeframes`, every fetch answered by the feed
ProcessTimeframe ==
    /\ pc = "run"
    /\ run.timeframes # << >>
    /\ LET tf == Head(run.timeframes)
           raw_interval == RawInterval(tf)
           fetched_dfs == IF raw_interval \in DOMAIN run.fetched_dfs
                          THEN run.fetched_dfs
                          ELSE Put(run.fetched_dfs, raw_interval,
                                   run.feed[raw_interval])
           frame == IF tf = "4H" THEN ResampleTo4h(fetched_dfs["1h"])
                    ELSE fetched_dfs[raw_interval]
           \* enrich_df = fetched_dfs.get('1h', df)
           enrich_df == IF "1h" \in DOMAIN fetched_dfs THEN fetched_dfs["1h"]
                        ELSE frame
           unit == UnitOfWork(frame, enrich_df)
       IN  run' =
             IF Len(frame) < MinCandles
             THEN [run EXCEPT !.timeframes = Tail(@), !.fetched_dfs = fetched_dfs]
             ELSE IF Len(unit.setups) = 0
             THEN [run EXCEPT !.timeframes = Tail(@), !.fetched_dfs = fetched_dfs,
                              !.all_diagnostics = Put(@, tf, unit.diag)]
             ELSE [run EXCEPT !.timeframes = Tail(@), !.fetched_dfs = fetched_dfs,
                              !.all_diagnostics = Put(@, tf, unit.diag),
                              !.all_results =
                                  Put(@, tf, [setups |-> unit.setups,
                                              df |-> frame, zones |-> unit.zones])]
    /\ UNCHANGED <<df, pc, zones, setups, diag, args, enriched, ret>>

NextRun == ProcessTimeframe

SpecRun == InitRun /\ [][NextRun]_vars

\* what main records for tf when tf is the only timeframe selected
UnitAlone(tf) ==
    LET frame == IF tf = "4H" THEN ResampleTo4h(run.feed["1h"])
                 ELSE run.feed[RawInterval(tf)]
        enrich_df == IF tf \in {"1H", "4H"} THEN run.feed["1h"] ELSE frame
        unit == UnitOfWork(frame, enrich_df)
    IN  [setups |-> unit.setups, df |-> frame, zones |-> unit.zones]

\* C21: the enriched Setups (news label included) and the Zones recorded for
\* a timeframe are those recorded when that timeframe is processed alone,
\* whatever other timeframes are selected and in whatever order.
C21_UnitsIndependent ==
    pc = "run" =>
        \A tf \in DOMAIN run.all_results : run.all_results[tf] = UnitAlone(tf)


----------------------------------------------------------------------------
(* The C1 gate *)

\* body/range ratio >= body_ratio_thresh, on a bar whose range is positive
RatioReaches(d, i, thresh) ==
    /\ Range(d, i) > 0
    /\ Body(d, i) * thresh.den >= thresh.num * Range(d, i)

\* C22: for every parameter pair (atr_mult = 0 included) and every series
\* (zero-range bars included), every Setup has a C1 whose range is positive,
\* whose body/range ratio is at least body_ratio_thresh and whose body is at
\* least atr_mult x ATR; an anchor failing either test produces no Setup.
C22_C1Gate ==
    Detected =>
        LET dc == WithColumns(df)
        IN  /\ \A k \in SetupIdx :
                  /\ RatioReaches(dc, setups[k].datetime, args.thresh)
                  /\ BodyReaches(dc, setups[k].datetime, args.mult)
            /\ \A i \in Anchors(df) :
                  ~(RatioReaches(dc, i, args.thresh) /\ BodyReaches(dc, i, args.mult))
                      => \A k \in SetupIdx : setups[k].datetime # i


----------------------------------------------------------------------------
(* The Zone collection *)

\* the bars of a frame (carrying the ATR column) that detect_zones is claimed
\* to turn into Zones
Qualifying(dc, zmin) ==
    { i \in ZoneBars(dc) : ~UndefinedOrZeroAtr(dc, i) /\ BodyReaches(dc, i, zmin) }

\* C23: detect_zones emits exactly one Zone for every bar at index >= 20 whose
\* ATR is defined and non-zero and whose body is >= zone_atr_min x ATR, and
\* none for any other bar (none for bars 0..19; overlapping Zones are neither
\* merged nor dropped); the Zone of a bullish bar is a demand zone with
\* top = open and bottom = low, the Zone of a bearish bar a supply zone with
\* top = high and bottom = open; every Zone has top >= bottom.
C23_OneZonePerQualifyingBar ==
    Zoned =>
        LET dc == WithColumns(df)
            q  == Qualifying(dc, args.zmin)
        IN  /\ Len(zones) = Cardinality(q)
            /\ \A i \in q :
                  Cardinality({ k \in ZoneIdx : zones[k].datetime = Row(df, i).datetime }) = 1
            /\ \A k \in ZoneIdx :
                  LET i == IndexOf(df, zones[k].datetime)
                      r == Row(df, i)
                  IN  /\ i \in q
                      /\ r.Close > r.Open =>
                             /\ zones[k].zone_type = "demand"
                             /\ zones[k].zone_top = r.Open
                             /\ zones[k].zone_bottom = r.Low
                      /\ r.Close < r.Open =>
                             /\ zones[k].zone_type = "supply"
                             /\ zones[k].zone_top = r.High
                             /\ zones[k].zone_bottom = r.Open
                      /\ r.Close # r.Open
                      /\ zones[k].zone_top >= zones[k].zone_bottom

\* a frame with two Zones whose price ranges overlap, both kept, and a bar
\* before index 20 that passes the ATR and body tests and has no Zone
C23_Witness ==
    /\ Zoned
    /\ \E k \in ZoneIdx, m \in ZoneIdx :
          /\ k # m
          /\ zones[k].zone_bottom <= zones[m].zone_top
          /\ zones[m].zone_bottom <= zones[k].zone_top
    /\ LET dc == WithColumns(df)
       IN  \E i \in 0..(ZoneWarmup - 1) :
               /\ i < Len(df)
               /\ ~UndefinedOrZeroAtr(dc, i)
               /\ BodyReaches(dc, i, args.zmin)


----------------------------------------------------------------------------
(* The classification and the proximity band of a zone query *)

\* price * (fractional distance of the price from zone z): 0 within
\* [bottom, top], else the distance to the nearer edge
EdgeDistance(z, price) ==
    IF Holds(z, price) THEN 0
    ELSE IF price > z.zone_top THEN price - z.zone_top
    ELSE z.zone_bottom - price

\* some active zone of the given type lies within the proximity threshold
ActiveNear(type) ==
    \E z \in ActiveZones :
        /\ z.zone_type = type
        /\ EdgeDistance(z, args.price) * args.proximity_pct.den
               <= args.proximity_pct.num * args.price

\* C24: the classification is contested iff at least one active supply zone
\* and at least one active demand zone each lie within the proximity
\* threshold (distance <= threshold), supply iff only a supply zone does,
\* demand iff only a demand zone does, neutral iff none does; any active zone
\* of a type sets that type's flag, not only the nearest zone.
C24_Classification ==
    Classified =>
        /\ ret.zone = "contested" <=> (ActiveNear("supply") /\ ActiveNear("demand"))
        /\ ret.zone = "supply" <=> (ActiveNear("supply") /\ ~ActiveNear("demand"))
        /\ ret.zone = "demand" <=> (ActiveNear("demand") /\ ~ActiveNear("supply"))
        /\ ret.zone = "neutral" <=> (~ActiveNear("supply") /\ ~ActiveNear("demand"))

\* a contested query: the nearest zone is a demand zone and the only supply
\* zone within the threshold is farther off
C24_Witness ==
    /\ Classified
    /\ ret.zone = "contested"
    /\ ret.nearest_zone_type = Some("demand")
    /\ \A z \in ActiveZones :
          z.zone_type = "supply"
              => \E y \in ActiveZones :
                     /\ y.zone_type = "demand"
                     /\ EdgeDistance(y, args.price) < EdgeDistance(z, args.price)

\* the band of a distance n / price, as the claim words it
BandOfDistance(n, price) ==
    IF n = 0 THEN "Inside Zone"
    ELSE IF n * 1000 <= 1 * price THEN "Touching"
    ELSE IF n * 1000 <= 3 * price THEN "Very Close"
    ELSE IF n * 1000 <= 6 * price THEN "Near"
    ELSE IF n * 1000 <= 10 * price THEN "Moderate"
    ELSE "Far"

\* the least distance of the price from an active zone (times the price)
NearestDistance ==
    CHOOSE n \in { EdgeDistance(z, args.price) : z \in ActiveZones } :
        \A z \in ActiveZones : n <= EdgeDistance(z, args.price)

\* C25: the proximity band is a function of the nearest active zone's distance
\* only: Inside Zone when it is 0, Touching up to 0.1%, Very Close up to 0.3%,
\* Near up to 0.6%, Moderate up to 1%, Far above 1%; the band is 'No Zone' iff
\* no zone is active, and exactly then the distance and the nearest zone's
\* type, strength and bounds are absent and the classification is neutral.
C25_ProximityBand ==
    Classified =>
        /\ ret.zone_proximity_band = "No Zone" <=> ActiveZones = {}
        /\ ActiveZones = {} =>
              /\ ret.zone = "neutral"
              /\ ret.zone_dist_pct = Absent
              /\ ret.nearest_zone_type = Absent
              /\ ret.zone_strength = Absent
              /\ ret.nearest_zone_top = Absent
              /\ ret.nearest_zone_bottom = Absent
        /\ ActiveZones # {} =>
              /\ ret.zone_proximity_band = BandOfDistance(NearestDistance, args.price)
              /\ ret.zone_dist_pct # Absent
              /\ ret.nearest_zone_type # Absent
              /\ ret.zone_strength # Absent
              /\ ret.nearest_zone_top # Absent
              /\ ret.nearest_zone_bottom # Absent

\* a query whose nearest active zone is exactly 0.1% away, a second active
\* zone being farther off
C25_Witness ==
    /\ Classified
    /\ Cardinality(ActiveZones) >= 2
    /\ NearestDistance * 1000 = args.price
    /\ ret.zone_proximity_band = "Touching"


----------------------------------------------------------------------------
(* The outcome simulation *)

\* the Setups main recorded for timeframe tf, and the frame they came from
Recorded(tf) == run.all_results[tf]
RecordedIdx(tf) == 1..Len(Recorded(tf).setups)
RecordedSetup(tf, k) == Recorded(tf).setups[k].setup

\* bar j touches the level n half-risks beyond the entry (n = 2: 1R, 3: 1.5R,
\* 4: 2R)
TargetTouch(d, j, s, n) ==
    IF s.direction = "LONG"
    THEN 2 * Row(d, j).High >= 2 * s.entry_price + n * s.risk
    ELSE 2 * Row(d, j).Low <= 2 * s.entry_price - n * s.risk

\* the favourable and the adverse excursion of bar j, in price
Favorable(d, j, s) ==
    IF s.direction = "LONG" THEN Row(d, j).High - s.entry_price
    ELSE s.entry_price - Row(d, j).Low
Adverse(d, j, s) ==
    IF s.direction = "LONG" THEN s.entry_price - Row(d, j).Low
    ELSE Row(d, j).High - s.entry_price

\* the largest member of a finite non-empty set of integers
Largest(S) == CHOOSE x \in S : \A y \in S : y <= x

\* C26: for a Setup anchored at i the outcome flags and excursions are
\* determined exactly by the bars i+3 .. min(i+23, length)-1: hit_sl, hit_1r,
\* hit_15r and hit_2r are each true iff some bar of that window touches the
\* respective level, whatever first_hit is; max_favorable_r and max_adverse_r
\* are the maxima over the window of the bars' excursions, floored at 0;
\* hence hit_2r implies hit_15r implies hit_1r.
C26_OutcomeWindow ==
    pc = "run" =>
        \A tf \in DOMAIN run.all_results :
            \A k \in RecordedIdx(tf) :
                LET d == Recorded(tf).df
                    s == RecordedSetup(tf, k)
                    w == Window(d, IndexOf(d, s.datetime))
                IN  /\ s.hit_sl <=> \E j \in w : SLTouch(d, j, s)
                    /\ s.hit_1r <=> \E j \in w : TargetTouch(d, j, s, 2)
                    /\ s.hit_15r <=> \E j \in w : TargetTouch(d, j, s, 3)
                    /\ s.hit_2r <=> \E j \in w : TargetTouch(d, j, s, 4)
                    /\ s.max_favorable = Largest({0} \cup { Favorable(d, j, s) : j \in w })
                    /\ s.max_adverse = Largest({0} \cup { Adverse(d, j, s) : j \in w })
                    /\ s.hit_2r => s.hit_15r
                    /\ s.hit_15r => s.hit_1r

\* a pass that recorded a Setup whose window is a full 20 bars, none of which
\* touches the 2R level while the bar right after the window does, and whose
\* stop-loss was touched before its 1R level was
C26_Witness ==
    /\ pc = "run"
    /\ \E tf \in DOMAIN run.all_results :
          \E k \in RecordedIdx(tf) :
              LET d == Recorded(tf).df
                  s == RecordedSetup(tf, k)
                  i == IndexOf(d, s.datetime)
              IN  /\ i + 23 < Len(d)
                  /\ ~s.hit_2r
                  /\ TargetTouch(d, i + 23, s, 4)
                  /\ s.first_hit = "SL"
                  /\ s.hit_1r


----------------------------------------------------------------------------
(* classify_wick_profile called on its own *)

\* the widest range of the bars tried
WickMaxRange == 50

\* the ranges of the bars tried: none, one that 100 does not divide, and one
\* fine enough for every rung of the ladder
WickRanges == {0, 7, WickMaxRange}

\* the bars tried: low 100000, every open and close within [low, high]
WickBars ==
    { [open_p |-> 100000 + o, close_p |-> 100000 + c, high |-> 100000 + t,
       low |-> 100000] :
          o \in 0..WickMaxRange, c \in 0..WickMaxRange, t \in WickRanges }

InitWick ==
    /\ df = << >>
    /\ pc = "bar"
    /\ zones = << >>
    /\ setups = << >>
    /\ diag = DiagStart
    /\ args \in { b \in WickBars : b.open_p <= b.high /\ b.close_p <= b.high }
    /\ enriched = << >>
    /\ ret = << >>
    /\ run = NoRun

\* classify_wick_profile(open_p, close_p, high, low)
CallClassifyWickProfile ==
    /\ pc = "bar"
    /\ ret' = ClassifyWickProfile(args.open_p, args.close_p, args.high, args.low)
    /\ pc' = "profiled"
    /\ UNCHANGED <<df, zones, setups, diag, args, enriched, run>>

NextWick == CallClassifyWickProfile

SpecWick == InitWick /\ [][NextWick]_vars

\* 100 * high-low times the unrounded percentages of the bar in args: each is
\* the percentage times TotalRange
TotalRange == args.high - args.low
UpperPct == 100 * (args.high - Max(args.open_p, args.close_p))
LowerPct == 100 * (Min(args.open_p, args.close_p) - args.low)
BodyPct == 100 * Abs(args.close_p - args.open_p)

\* the rungs of the ladder as the claim words them
IsDoji == BodyPct < 10 * TotalRange
IsBothSides == UpperPct > 30 * TotalRange /\ LowerPct > 30 * TotalRange
IsHeavyUpper == UpperPct > 2 * LowerPct /\ UpperPct > 20 * TotalRange
IsHeavyLower == LowerPct > 2 * UpperPct /\ LowerPct > 20 * TotalRange
IsFullBody == BodyPct > 75 * TotalRange
IsSlightUpper == UpperPct > LowerPct + 5 * TotalRange
IsSlightLower == LowerPct > UpperPct + 5 * TotalRange

\* C27: for a bar with high > low classify_wick_profile gives exactly one
\* label, the first that matches in the order Doji (body% < 10), Wicks Both
\* Sides (upper% > 30 and lower% > 30), Heavy Upper Wick (upper% > 2 x lower%
\* and upper% > 20), Heavy Lower Wick (lower% > 2 x upper% and lower% > 20),
\* Full Body (body% > 75), Slight Upper Wick (upper% > lower% + 5), Slight
\* Lower Wick (lower% > upper% + 5), Balanced; the unrounded upper%, lower%
\* and body% sum to 100.
C27_WickLadder ==
    (pc = "profiled" /\ args.high > args.low) =>
        /\ UpperPct + LowerPct + BodyPct = 100 * TotalRange
        /\ ret.label = "Doji" <=> IsDoji
        /\ ret.label = "Wicks Both Sides" <=> (~IsDoji /\ IsBothSides)
        /\ ret.label = "Heavy Upper Wick"
               <=> (~IsDoji /\ ~IsBothSides /\ IsHeavyUpper)
        /\ ret.label = "Heavy Lower Wick"
               <=> (~IsDoji /\ ~IsBothSides /\ ~IsHeavyUpper /\ IsHeavyLower)
        /\ ret.label = "Full Body (Marubozu)"
               <=> (~IsDoji /\ ~IsBothSides /\ ~IsHeavyUpper /\ ~IsHeavyLower
                      /\ IsFullBody)
        /\ ret.label = "Slight Upper Wick"
               <=> (~IsDoji /\ ~IsBothSides /\ ~IsHeavyUpper /\ ~IsHeavyLower
                      /\ ~IsFullBody /\ IsSlightUpper)
        /\ ret.label = "Slight Lower Wick"
               <=> (~IsDoji /\ ~IsBothSides /\ ~IsHeavyUpper /\ ~IsHeavyLower
                      /\ ~IsFullBody /\ ~IsSlightUpper /\ IsSlightLower)
        /\ ret.label = "Balanced"
               <=> (~IsDoji /\ ~IsBothSides /\ ~IsHeavyUpper /\ ~IsHeavyLower
                      /\ ~IsFullBody /\ ~IsSlightUpper /\ ~IsSlightLower)

\* a bar that matches both the Heavy Upper Wick rung and the later Full Body
\* rung, and is given the earlier label
C27_Witness ==
    /\ pc = "profiled"
    /\ args.high > args.low
    /\ IsHeavyUpper
    /\ IsFullBody
    /\ ret.label = "Heavy Upper Wick"


----------------------------------------------------------------------------
(* enrich_setups called on its own *)

\* a bullish bar opening at o: the demand zone it leaves is [98000, o]
Origin(o) == Bar(o, 105100, 98000, 105000)
\* a bearish bar with a large body, then a bar inside it, then a close of
\* 100000 below the inside bar's low: a SHORT Setup entered at 100000
Drop == Bar(105000, 105100, 99500, 99900)
Rest == Bar(100300, 100500, 100100, 100200)
Slip == Bar(100200, 100250, 99950, 100000)

\* the tops of the demand zone tried: 0.001%, 0.2%, 0.3% and 0.4% below 100000
OriginOpens == { 99999, 99800, 99700, 99600 }

EnrichWindows == { <<Origin(o), Drop, Rest, Slip>> : o \in OriginOpens }

\* zone_proximity values tried: the default of the signature, which is the
\* spec's example, and the value of the sidebar
DirectProximities == { Rat(3, 1000), Rat(3, 10) }

InitEnrich ==
    /\ df \in { Series(SeriesLen, fill, free) :
                  fill \in Fillers, free \in EnrichWindows }
    /\ pc = "loaded"
    /\ zones = << >>
    /\ setups = << >>
    /\ diag = DiagStart
    /\ args = NoArgs
    /\ enriched = << >>
    /\ ret = << >>
    /\ run = NoRun

\* enrich_setups(setups, df, zones, event_dates, zone_lookback, zone_proximity)
DirectEnrichSetups ==
    /\ pc = "detected"
    /\ \E lb \in Lookbacks, prox \in DirectProximities :
          /\ enriched' = EnrichSetups(setups, df, zones, {}, lb, prox)
          /\ args' = [args EXCEPT !.lookback = lb, !.proximity = prox]
    /\ pc' = "enriched"
    /\ UNCHANGED <<df, zones, setups, diag, ret, run>>

NextEnrich ==
    CoreDetectZones \/ CoreDetectSetupsWithDiagnostics \/ DirectEnrichSetups

SpecEnrich == InitEnrich /\ [][NextEnrich]_vars

\* some zone of the given type, active for row k, lies at a fractional
\* distance <= prox from the row's entry price
NearFor(k, type, prox) ==
    \E z \in ActiveFor(k) :
        /\ z.zone_type = type
        /\ EdgeDistance(z, enriched[k].setup.entry_price) * prox.den
               <= prox.num * enriched[k].setup.entry_price

\* C28: enrich_setups queries the Zone Matcher with the Setup's origin
\* timestamp, its entry price, the caller's lookback hours and the caller's
\* zone_proximity as a fraction of price, unchanged: a Setup is flagged near a
\* supply (demand) zone exactly when some active supply (demand) zone lies at
\* a fractional distance <= zone_proximity from the entry price.
C28_ProximityUnchanged ==
    Enriched =>
        \A k \in RowIdx :
            /\ enriched[k].zone_info.zone \in {"supply", "contested"}
                   <=> NearFor(k, "supply", args.proximity)
            /\ enriched[k].zone_info.zone \in {"demand", "contested"}
                   <=> NearFor(k, "demand", args.proximity)


----------------------------------------------------------------------------
(* The candles after the breakout *)

\* C29: the anchors being in [14, length - 6), every Setup has its C4, C5 and
\* C6 present (an absent candle outcome never occurs, and follow_count counts
\* over exactly three candles), its simulation window holds at least 4 bars,
\* and no Setup is anchored on one of the last 6 bars of the series.
C29_FollowersPresent ==
    Detected =>
        \A k \in SetupIdx :
            LET i == IndexOf(df, setups[k].datetime)
                res == <<setups[k].c4_res, setups[k].c5_res, setups[k].c6_res>>
            IN  /\ i >= FirstAnchor
                /\ i < Len(df) - 6
                /\ \A n \in 1..3 : res[n].present
                /\ setups[k].follow_count
                       = Cardinality({ n \in 1..3 : res[n].followed })
                /\ Cardinality(Window(df, i)) >= 4

\* a Setup anchored on the seventh bar from the end: its C6 is the
\* last-but-one bar and its simulation window holds exactly 4 bars
C29_Witness ==
    /\ Detected
    /\ \E k \in SetupIdx :
          /\ setups[k].datetime = Len(df) - 7
          /\ Cardinality(Window(df, Len(df) - 7)) = 4
          /\ setups[k].c6_res.present


----------------------------------------------------------------------------
(* Risk and the breakout margin *)

\* the range of the inside bar of Setup s
C2Range(s) == s.c2.High - s.c2.Low

\* what C30 says of every funnel and of every Setup but for the stored
\* risk multiple: in each funnel pass_valid_risk = pass_c3_breakout, and a
\* Setup's risk is its breakout margin plus its C2's range, so that
\* risk >= breakout margin > 0
RiskIsMarginPlusRange ==
    /\ \A tf \in DOMAIN run.all_diagnostics :
          run.all_diagnostics[tf].pass_valid_risk
              = run.all_diagnostics[tf].pass_c3_breakout
    /\ \A tf \in DOMAIN run.all_results :
          \A k \in RecordedIdx(tf) :
              LET s == RecordedSetup(tf, k)
              IN  /\ s.risk = s.c3_breakout_margin + C2Range(s)
                  /\ s.risk >= s.c3_breakout_margin
                  /\ s.c3_breakout_margin > 0

\* C30 as claimed: for every candidate passing the breakout gate (on valid
\* bars, C2.high >= C2.low) risk = breakout margin + C2's range, so the
\* risk <= 0 rejection never fires (pass_valid_risk = pass_c3_breakout in
\* every funnel), and every Setup's breakout margin in risk multiples
\* (c3_breakout_margin_r, kept in thousandths) lies in (0, 1].
C30_MarginWithinRisk ==
    pc = "run" =>
        /\ RiskIsMarginPlusRange
        /\ \A tf \in DOMAIN run.all_results :
              \A k \in RecordedIdx(tf) :
                  /\ RecordedSetup(tf, k).c3_breakout_margin_r > 0
                  /\ RecordedSetup(tf, k).c3_breakout_margin_r <= 1000

\* C30 amended: risk = breakout margin + C2's range and the rejection never
\* fires, as claimed; the quotient margin / risk lies in (0, 1], and the
\* Setup's c3_breakout_margin_r is that quotient rounded to three decimals,
\* which lies in [0, 1]: it is 0 for a margin well below risk / 2000.
C30_RoundedMarginWithinRisk ==
    pc = "run" =>
        /\ RiskIsMarginPlusRange
        /\ \A tf \in DOMAIN run.all_results :
              \A k \in RecordedIdx(tf) :
                  LET s == RecordedSetup(tf, k)
                  IN  /\ 0 < s.c3_breakout_margin
                      /\ s.c3_breakout_margin <= s.risk
                      /\ s.c3_breakout_margin_r
                             = RoundScaled(s.c3_breakout_margin, s.risk, 1000)
                      /\ s.c3_breakout_margin_r >= 0
                      /\ s.c3_breakout_margin_r <= 1000

\* a pass that recorded a Setup whose margin is below risk / 2000 and whose
\* stored risk multiple is 0
C30_Witness ==
    /\ pc = "run"
    /\ \E tf \in DOMAIN run.all_results :
          \E k \in RecordedIdx(tf) :
              /\ RecordedSetup(tf, k).c3_breakout_margin * 2000 < RecordedSetup(tf, k).risk
              /\ RecordedSetup(tf, k).c3_breakout_margin_r = 0
              /\ run.all_diagnostics[tf].pass_c3_breakout >= 1

====
